---- MODULE Spec2Model ----
(***************************************************************************)
(* Model of sftool's flashing engine (sftool-lib):                         *)
(*   - write_flash.rs : the write orchestrator (erase_all, skip check,     *)
(*                      WriteAndErase / Write streaming, post-write verify)*)
(*                      and the image normalizer (hex_to_bin, elf_to_bin)  *)
(*   - ram_command.rs : command() / send_data() and their token scan       *)
(*   - main.rs, speed.rs, reset.rs : the session around write_flash        *)
(*   - lib.rs         : SifliTool::new and download_stub                    *)
(* The specifications share the variables:                                 *)
(*   Spec      the orchestrator, one step per transport write or per       *)
(*             classified response                                         *)
(*   SpecCodec the byte-level read loop of command() and send_data()       *)
(*   SpecNorm  the normalizer loop over the input files                    *)
(*   SpecMain  main(): set_speed, write_flash (normalizer, then            *)
(*             orchestrator), soft_reset                                   *)
(*   SpecBoot  SifliTool::new: download_stub, then the serial handshake    *)
(*   SpecCodecLive  SpecCodec with weak fairness on the caller's steps     *)
(***************************************************************************)
EXTENDS Integers, Sequences, FiniteSets, TLC

VARIABLES
    \* ---- write_flash (orchestrator) ----
    files,          \* write_flash_files: Seq of [address, len, crc32]
    erase_all,      \* params.erase_all
    verify,         \* params.verify
    compat,         \* self.base.compat
    pc,             \* position inside write_flash
    idx,            \* index of the chunk the `for file in ...` loop is at
    eidx,           \* index of the chunk the loop of erase_all() is at
    erase_address,  \* erase_address: Vec<u32> of erase_all()
    pos,            \* read position of `reader` in the current chunk
    address,        \* `address` of the erase-all write loop
    bytes_read,     \* `bytes_read` of the current loop iteration
    log,            \* everything written to the transport, with its response
    completed,      \* per chunk: how often its streaming loop was left by break
    result,         \* "running", "Ok" or the error write_flash returned
    \* ---- command() / send_data() (ram_command.rs) ----
    c_cmd,          \* the call: a Command variant, or "Data" for send_data
    c_pc,           \* position inside the call
    c_stream,       \* bytes the device has still to send
    c_rx,           \* the input buffer of the serial port
    c_fresh,        \* how many bytes at the end of c_rx the device sent after the write
    c_lost,         \* bytes sent after the write that port.clear() discarded
    c_buffer,       \* `buffer`, the accumulated bytes
    c_elapsed,      \* now.elapsed() in ms
    c_result,       \* "none", a Response, or the error returned
    \* ---- the normalizer loop of write_flash (write_flash.rs:316-349) ----
    n_inputs,       \* params.file_path, each entry with the file it names
    n_i,            \* index of the input the loop is at
    n_files,        \* write_flash_files as built so far
    n_pc,           \* "loop" or "done"
    n_result,       \* "running", "Ok" or the error returned
    \* ---- main() (main.rs:99-137), set_speed, soft_reset ----
    m_pc,           \* position inside main
    m_baud,         \* args.baud
    m_after,        \* args.after != Operation::None
    port_baud,      \* the baud rate the local serial port is set to
    \* ---- SifliTool::new and download_stub (lib.rs:54-76, 141-237) ----
    b_compat,       \* base_param.compat
    b_key,          \* "{chip}_{memory_type}"
    b_stub,         \* what RamStubFile::get finds for the key's file name
    b_pc,           \* position inside new / download_stub
    b_addr,         \* `addr`, the write cursor in target RAM
    b_data,         \* how many bytes of stub.data `data` has left behind
    b_mem,          \* the packets core.write_8 wrote: [addr, off, len]
    b_sp,           \* SP as written by write_core_reg, -1 before
    b_pcreg,        \* PC as written by write_core_reg, -1 before
    b_tx,           \* the bytes written to the serial port
    b_ops,          \* the probe and port calls that succeeded, in order
    b_result        \* "none", "Ok" or the error download_stub returned

flashVars == <<files, erase_all, verify, compat, pc, idx, eidx, erase_address,
               pos, address, bytes_read, log, completed, result>>

codecVars == <<c_cmd, c_pc, c_stream, c_rx, c_fresh, c_lost, c_buffer, c_elapsed, c_result>>

normVars == <<n_inputs, n_i, n_files, n_pc, n_result>>

mainVars == <<m_pc, m_baud, m_after, port_baud>>

bootVars == <<b_compat, b_key, b_stub, b_pc, b_addr, b_data, b_mem, b_sp, b_pcreg,
              b_tx, b_ops, b_result>>

nonFlashVars == <<codecVars, normVars, mainVars, bootVars>>
nonCodecVars == <<flashVars, normVars, mainVars, bootVars>>
nonNormVars == <<flashVars, codecVars, mainVars, bootVars>>
nonBootVars == <<flashVars, codecVars, normVars, mainVars>>

vars == <<flashVars, codecVars, normVars, mainVars, bootVars>>

----------------------------------------------------------------------------
\* Bounds of the model
MaxChunks == 3
MaxPieces == 3
MaxRx == 2
MaxRecords == 3
MaxSegments == 3
MaxFiles == 2
MaxStubPackets == 3

\* Program constants
BANK_SIZE == 16777216
NONCOMPAT_PACKET == 131072
COMPAT_PACKET == 256
STREAM_BUFFER == 131072
TIMEOUT == 4000
ERASE_ALL_TIMEOUT == 30000
PORT_TIMEOUT == 5000
SECTOR_SIZE == 4096
FILL_BYTE == 255
RAM_BASE == 536870912
DEFAULT_BAUD == 1000000
SET_BAUD_DELAY == 500

Min(a, b) == IF a < b THEN a ELSE b

----------------------------------------------------------------------------
\* Inputs of the orchestrator: the chunk list the normalizer hands over.
\* The lengths are chosen against the read buffer of the path taken (buf):
\* more than one buffer with a remainder, exactly one buffer, empty.
\* The crc32 field is a stand-in, distinct per chunk kind, so that a Verify
\* carrying another chunk's fields is visible.
ChunkKinds(buf) ==
    { [address |-> 301989888, len |-> buf + 44, crc32 |-> 11],   \* 0x12000000
      [address |-> 302055424, len |-> buf,      crc32 |-> 22],   \* 0x12010000
      [address |-> 268435456, len |-> 0,        crc32 |-> 33] }  \* 0x10000000

RECURSIVE SeqsUpTo(_, _)
SeqsUpTo(S, n) == IF n = 0 THEN { <<>> }
                  ELSE LET shorter == SeqsUpTo(S, n - 1)
                       IN shorter \cup { Append(s, x) : s \in { t \in shorter : Len(t) = n - 1 }, x \in S }

Responses == {"Ok", "Fail", "RxWait"}
\* What command() / send_data() hand back: a decoded Response or Err(TimedOut)
CommandOutcomes == Responses \cup {"Timeout"}

\* address & 0xFF00_0000
Bank_NoMask(a) == a
Bank(a) == (a \div BANK_SIZE) * BANK_SIZE

\* if self.base.compat { 256 } else { 128 * 1024 }
packet_size == IF compat THEN COMPAT_PACKET ELSE NONCOMPAT_PACKET

\* response == Response::Ok of the skip check
SkipCheckOk_Inverted(r) == r # "Ok"
SkipCheckOk(r) == r = "Ok"

\* response != Response::Ok in verify()
VerifyFailed_OnlyFail(r) == r = "Fail"
VerifyFailed(r) == r # "Ok"

\* res != Response::RxWait after WriteAndErase
WriteAndEraseRejected_OnlyFail(r) == r = "Fail"
WriteAndEraseRejected(r) == r # "RxWait"

\* the branches of the streaming loop after send_data:
\* if res == RxWait { continue } else if res != Ok { return Err } -- and Ok
\* falls through to the end of the loop body, i.e. to the next read
StreamOutcome_RxWaitIsError(r) ==
    IF r # "Ok" THEN "error" ELSE "fallthrough"
StreamOutcome(r) ==
    IF r = "RxWait" THEN "continue" ELSE IF r # "Ok" THEN "error" ELSE "fallthrough"

\* res != Response::Ok in the erase-all write loop
EraseAllWriteAbort_OnlyFail(r) == r = "Fail"
EraseAllWriteAbort(r) == r # "Ok"

Entry(op, f, a, l, c) == [op |-> op, file |-> f, address |-> a, len |-> l, crc |-> c, resp |-> "none"]

\* The response to the last thing written has been read and classified
Classify(r) == [log EXCEPT ![Len(log)].resp = r]

----------------------------------------------------------------------------
CodecIdle ==
    /\ c_cmd = "none"
    /\ c_pc = "idle"
    /\ c_stream = <<>>
    /\ c_rx = <<>>
    /\ c_fresh = 0
    /\ c_lost = <<>>
    /\ c_buffer = <<>>
    /\ c_elapsed = 0
    /\ c_result = "none"

NormIdle ==
    /\ n_inputs = <<>>
    /\ n_i = 1
    /\ n_files = <<>>
    /\ n_pc = "idle"
    /\ n_result = "none"

\* the port as SifliTool::new opens it; main is not under way
MainIdle ==
    /\ m_pc = "idle"
    /\ m_baud = DEFAULT_BAUD
    /\ m_after = FALSE
    /\ port_baud = DEFAULT_BAUD

\* SifliTool::new is not under way
BootIdle ==
    /\ b_compat = FALSE
    /\ b_key = "none"
    /\ b_stub = [len |-> 0, head |-> <<>>]
    /\ b_pc = "idle"
    /\ b_addr = 0
    /\ b_data = 0
    /\ b_mem = <<>>
    /\ b_sp = -1
    /\ b_pcreg = -1
    /\ b_tx = <<>>
    /\ b_ops = <<>>
    /\ b_result = "none"

Init ==
    /\ BootIdle
    /\ CodecIdle
    /\ NormIdle
    /\ MainIdle
    /\ erase_all \in BOOLEAN
    /\ verify \in BOOLEAN
    /\ compat \in BOOLEAN
    /\ files \in SeqsUpTo(ChunkKinds(IF erase_all THEN packet_size ELSE STREAM_BUFFER), MaxChunks)
    /\ pc = "start"
    /\ idx = 1
    /\ eidx = 1
    /\ erase_address = <<>>
    /\ pos = 0
    /\ address = 0
    /\ bytes_read = 0
    /\ log = <<>>
    /\ completed = [k \in 1..Len(files) |-> 0]
    /\ result = "running"

\* return Err(...), also through `?`
Fail_TryChunkAgain(err) ==
    /\ result' = result
    /\ pc' = "chunk"
Fail(err) ==
    /\ result' = err
    /\ pc' = "done"

\* if params.erase_all { self.erase_all(...)?; }
Start ==
    /\ pc = "start"
    /\ pc' = IF erase_all THEN "erase" ELSE "chunk"
    /\ UNCHANGED <<files, erase_all, verify, compat, idx, eidx, erase_address,
                   pos, address, bytes_read, log, completed, result>>
    /\ UNCHANGED nonFlashVars

\* erase_all(): if erase_address.contains(&address) { continue; }
EraseSkip ==
    /\ pc = "erase"
    /\ eidx <= Len(files)
    /\ \E i \in 1..Len(erase_address) : erase_address[i] = Bank(files[eidx].address)
    /\ eidx' = eidx + 1
    /\ UNCHANGED <<files, erase_all, verify, compat, pc, idx, erase_address,
                   pos, address, bytes_read, log, completed, result>>
    /\ UNCHANGED nonFlashVars

\* erase_all(): self.command(Command::EraseAll { address: f.address }), the write
EraseSend ==
    /\ pc = "erase"
    /\ eidx <= Len(files)
    /\ ~ \E i \in 1..Len(erase_address) : erase_address[i] = Bank(files[eidx].address)
    /\ log' = Append(log, Entry("EraseAll", eidx, files[eidx].address, 0, 0))
    /\ pc' = "erase_wait"
    /\ UNCHANGED <<files, erase_all, verify, compat, idx, eidx, erase_address,
                   pos, address, bytes_read, completed, result>>
    /\ UNCHANGED nonFlashVars

\* erase_all(): the response of the EraseAll command; `?` returns on a timeout,
\* the decoded Response itself is not looked at
EraseResp ==
    /\ pc = "erase_wait"
    /\ \E r \in CommandOutcomes :
        /\ log' = Classify(r)
        /\ IF r = "Timeout"
           THEN /\ Fail("Timeout")
                /\ UNCHANGED <<eidx, erase_address>>
           ELSE /\ erase_address' = Append(erase_address, Bank(files[eidx].address))
                /\ eidx' = eidx + 1
                /\ pc' = "erase"
                /\ UNCHANGED result
    /\ UNCHANGED <<files, erase_all, verify, compat, idx, pos, address, bytes_read, completed>>
    /\ UNCHANGED nonFlashVars

\* erase_all() returns Ok(())
EraseDone ==
    /\ pc = "erase"
    /\ eidx > Len(files)
    /\ pc' = "chunk"
    /\ UNCHANGED <<files, erase_all, verify, compat, idx, eidx, erase_address,
                   pos, address, bytes_read, log, completed, result>>
    /\ UNCHANGED nonFlashVars

\* for file in write_flash_files.iter(): the loop is over, Ok(())
AllChunksDone ==
    /\ pc = "chunk"
    /\ idx > Len(files)
    /\ result' = "Ok"
    /\ pc' = "done"
    /\ UNCHANGED <<files, erase_all, verify, compat, idx, eidx, erase_address,
                   pos, address, bytes_read, log, completed>>
    /\ UNCHANGED nonFlashVars

\* non-erase-all path: the skip check, self.command(Command::Verify {...}), the write
SkipCheckSend ==
    /\ pc = "chunk"
    /\ idx <= Len(files)
    /\ ~ erase_all
    /\ log' = Append(log, Entry("Verify", idx, files[idx].address, files[idx].len, files[idx].crc32))
    /\ pc' = "skip_wait"
    /\ UNCHANGED <<files, erase_all, verify, compat, idx, eidx, erase_address,
                   pos, address, bytes_read, completed, result>>
    /\ UNCHANGED nonFlashVars

\* the response of the skip check: Ok -> continue, timeout -> Err, else go on
SkipCheckResp ==
    /\ pc = "skip_wait"
    /\ \E r \in CommandOutcomes :
        /\ log' = Classify(r)
        /\ IF r = "Timeout"
           THEN /\ Fail("Timeout")
                /\ UNCHANGED idx
           ELSE IF SkipCheckOk(r)
           THEN /\ idx' = idx + 1
                /\ pc' = "chunk"
                /\ UNCHANGED result
           ELSE /\ pc' = "we_send"
                /\ UNCHANGED <<idx, result>>
    /\ UNCHANGED <<files, erase_all, verify, compat, eidx, erase_address,
                   pos, address, bytes_read, completed>>
    /\ UNCHANGED nonFlashVars

\* self.command(Command::WriteAndErase {...}), the write
WriteAndEraseSend ==
    /\ pc = "we_send"
    /\ log' = Append(log, Entry("WriteAndErase", idx, files[idx].address, files[idx].len, 0))
    /\ pc' = "we_wait"
    /\ UNCHANGED <<files, erase_all, verify, compat, idx, eidx, erase_address,
                   pos, address, bytes_read, completed, result>>
    /\ UNCHANGED nonFlashVars

\* the response of WriteAndErase: only RxWait lets the streaming start
WriteAndEraseResp ==
    /\ pc = "we_wait"
    /\ \E r \in CommandOutcomes :
        /\ log' = Classify(r)
        /\ IF r = "Timeout"
           THEN /\ Fail("Timeout")
                /\ UNCHANGED pos
           ELSE IF WriteAndEraseRejected(r)
           THEN /\ Fail("Write flash failed")
                /\ UNCHANGED pos
           ELSE /\ pc' = "stream"
                /\ pos' = 0
                /\ UNCHANGED result
    /\ UNCHANGED <<files, erase_all, verify, compat, idx, eidx, erase_address,
                   address, bytes_read, completed>>
    /\ UNCHANGED nonFlashVars

\* streaming loop: reader.read(&mut buffer) returned 0 -> break
StreamBreak ==
    /\ pc = "stream"
    /\ Min(STREAM_BUFFER, files[idx].len - pos) = 0
    /\ bytes_read' = 0
    /\ completed' = [completed EXCEPT ![idx] = @ + 1]
    /\ pc' = "post"
    /\ UNCHANGED <<files, erase_all, verify, compat, idx, eidx, erase_address,
                   pos, address, log, result>>
    /\ UNCHANGED nonFlashVars

\* streaming loop: reader.read(&mut buffer), then self.send_data(&buffer[..bytes_read]), the write
StreamSend ==
    /\ pc = "stream"
    /\ Min(STREAM_BUFFER, files[idx].len - pos) > 0
    /\ bytes_read' = Min(STREAM_BUFFER, files[idx].len - pos)
    /\ pos' = pos + bytes_read'
    /\ log' = Append(log, Entry("Data", idx, pos, bytes_read', 0))
    /\ pc' = "stream_wait"
    /\ UNCHANGED <<files, erase_all, verify, compat, idx, eidx, erase_address,
                   address, completed, result>>
    /\ UNCHANGED nonFlashVars

\* streaming loop: the response of send_data; RxWait -> continue, Ok -> falls
\* through to the next iteration, anything else -> Err
StreamResp ==
    /\ pc = "stream_wait"
    /\ \E r \in CommandOutcomes :
        /\ log' = Classify(r)
        /\ IF r = "Timeout"
           THEN Fail("Timeout")
           ELSE IF StreamOutcome(r) = "error"
           THEN Fail("Write flash failed")
           ELSE /\ pc' = "stream"
                /\ UNCHANGED result
    /\ UNCHANGED <<files, erase_all, verify, compat, idx, eidx, erase_address,
                   pos, address, bytes_read, completed>>
    /\ UNCHANGED nonFlashVars

\* erase-all path: let mut address = file.address; and the reader at offset 0
EraseAllPathBegin ==
    /\ pc = "chunk"
    /\ idx <= Len(files)
    /\ erase_all
    /\ address' = files[idx].address
    /\ pos' = 0
    /\ pc' = "ea_loop"
    /\ UNCHANGED <<files, erase_all, verify, compat, idx, eidx, erase_address,
                   bytes_read, log, completed, result>>
    /\ UNCHANGED nonFlashVars

\* erase-all write loop: reader.read(&mut buffer) returned 0 -> break
EraseAllPathBreak ==
    /\ pc = "ea_loop"
    /\ Min(packet_size, files[idx].len - pos) = 0
    /\ bytes_read' = 0
    /\ completed' = [completed EXCEPT ![idx] = @ + 1]
    /\ pc' = "post"
    /\ UNCHANGED <<files, erase_all, verify, compat, idx, eidx, erase_address,
                   pos, address, log, result>>
    /\ UNCHANGED nonFlashVars

\* erase-all write loop: self.port.write_all(Command::Write {...}); self.port.flush()
\* -- written to the port directly, no response is read
WriteLineSend ==
    /\ pc = "ea_loop"
    /\ Min(packet_size, files[idx].len - pos) > 0
    /\ bytes_read' = Min(packet_size, files[idx].len - pos)
    /\ pos' = pos + bytes_read'
    /\ log' = Append(log, Entry("Write", idx, address, bytes_read', 0))
    /\ pc' = "ea_data"
    /\ UNCHANGED <<files, erase_all, verify, compat, idx, eidx, erase_address,
                   address, completed, result>>
    /\ UNCHANGED nonFlashVars

\* erase-all write loop: self.send_data(&buffer[..bytes_read]), the write
WriteDataSend ==
    /\ pc = "ea_data"
    /\ log' = Append(log, Entry("Data", idx, pos - bytes_read, bytes_read, 0))
    /\ pc' = "ea_wait"
    /\ UNCHANGED <<files, erase_all, verify, compat, idx, eidx, erase_address,
                   pos, address, bytes_read, completed, result>>
    /\ UNCHANGED nonFlashVars

\* address += bytes_read as u32
NextWriteAddress_Stuck(a, n) == a
NextWriteAddress(a, n) == a + n

\* erase-all write loop: the response of send_data; only Ok goes on
WriteDataResp ==
    /\ pc = "ea_wait"
    /\ \E r \in CommandOutcomes :
        /\ log' = Classify(r)
        /\ IF r = "Timeout"
           THEN /\ Fail("Timeout")
                /\ UNCHANGED address
           ELSE IF EraseAllWriteAbort(r)
           THEN /\ Fail("Write flash failed")
                /\ UNCHANGED address
           ELSE /\ address' = NextWriteAddress(address, bytes_read)
                /\ pc' = "ea_loop"
                /\ UNCHANGED result
    /\ UNCHANGED <<files, erase_all, verify, compat, idx, eidx, erase_address,
                   pos, bytes_read, completed>>
    /\ UNCHANGED nonFlashVars

\* if params.verify is false: next chunk
NoPostVerify ==
    /\ pc = "post"
    /\ ~ verify
    /\ idx' = idx + 1
    /\ pc' = "chunk"
    /\ UNCHANGED <<files, erase_all, verify, compat, eidx, erase_address,
                   pos, address, bytes_read, log, completed, result>>
    /\ UNCHANGED nonFlashVars

\* if params.verify { self.verify(...) }: the Verify command, the write
PostVerifySend_CrcOfNothing ==
    /\ pc = "post"
    /\ verify
    /\ log' = Append(log, Entry("Verify", idx, files[idx].address, files[idx].len, 0))
    /\ pc' = "pv_wait"
    /\ UNCHANGED <<files, erase_all, verify, compat, idx, eidx, erase_address,
                   pos, address, bytes_read, completed, result>>
    /\ UNCHANGED nonFlashVars
PostVerifySend ==
    /\ pc = "post"
    /\ verify
    /\ log' = Append(log, Entry("Verify", idx, files[idx].address, files[idx].len, files[idx].crc32))
    /\ pc' = "pv_wait"
    /\ UNCHANGED <<files, erase_all, verify, compat, idx, eidx, erase_address,
                   pos, address, bytes_read, completed, result>>
    /\ UNCHANGED nonFlashVars

\* verify(): the response; anything but Ok is "Verify failed"
PostVerifyResp ==
    /\ pc = "pv_wait"
    /\ \E r \in CommandOutcomes :
        /\ log' = Classify(r)
        /\ IF r = "Timeout"
           THEN /\ Fail("Timeout")
                /\ UNCHANGED idx
           ELSE IF VerifyFailed(r)
           THEN /\ Fail("Verify failed")
                /\ UNCHANGED idx
           ELSE /\ idx' = idx + 1
                /\ pc' = "chunk"
                /\ UNCHANGED result
    /\ UNCHANGED <<files, erase_all, verify, compat, eidx, erase_address,
                   pos, address, bytes_read, completed>>
    /\ UNCHANGED nonFlashVars

\* write_all / flush on the port failed: `?` returns the I/O error
SendPcs == {"we_send", "ea_data"}
TransportError ==
    /\ \/ pc \in SendPcs
       \/ pc = "post" /\ verify
       \/ pc = "chunk" /\ idx <= Len(files) /\ ~ erase_all
       \/ pc = "stream" /\ Min(STREAM_BUFFER, files[idx].len - pos) > 0
       \/ pc = "ea_loop" /\ Min(packet_size, files[idx].len - pos) > 0
       \/ pc = "erase" /\ eidx <= Len(files)
             /\ ~ \E i \in 1..Len(erase_address) : erase_address[i] = Bank(files[eidx].address)
    /\ Fail("IoError")
    /\ UNCHANGED <<files, erase_all, verify, compat, idx, eidx, erase_address,
                   pos, address, bytes_read, log, completed>>
    /\ UNCHANGED nonFlashVars

Next ==
    \/ Start
    \/ EraseSkip
    \/ EraseSend
    \/ EraseResp
    \/ EraseDone
    \/ AllChunksDone
    \/ SkipCheckSend
    \/ SkipCheckResp
    \/ WriteAndEraseSend
    \/ WriteAndEraseResp
    \/ StreamBreak
    \/ StreamSend
    \/ StreamResp
    \/ EraseAllPathBegin
    \/ EraseAllPathBreak
    \/ WriteLineSend
    \/ WriteDataSend
    \/ WriteDataResp
    \/ NoPostVerify
    \/ PostVerifySend
    \/ PostVerifyResp
    \/ TransportError

Spec == Init /\ [][Next]_vars

----------------------------------------------------------------------------
\* command() and send_data() of ram_command.rs, byte by byte

\* const RESPONSE_STR_TABLE: [&str; 3] = ["OK", "Fail", "RX_WAIT"]
RESPONSE_STR_TABLE ==
    << <<"O", "K">>, <<"F", "a", "i", "l">>, <<"R", "X", "_", "W", "A", "I", "T">> >>

\* Response::from_str: "OK" -> Ok, "Fail" -> Fail, "RX_WAIT" -> RxWait
FromStr_AlwaysOk(response_str) == "Ok"
FromStr(response_str) ==
    IF response_str = <<"O", "K">> THEN "Ok"
    ELSE IF response_str = <<"F", "a", "i", "l">> THEN "Fail"
    ELSE IF response_str = <<"R", "X", "_", "W", "A", "I", "T">> THEN "RxWait"
    ELSE "InvalidData"

\* buffer.windows(response_bytes.len()).any(|window| window == response_bytes)
Exists_PrefixOnly(buffer, response_bytes) ==
    /\ Len(buffer) >= Len(response_bytes)
    /\ SubSeq(buffer, 1, Len(response_bytes)) = response_bytes
Exists(buffer, response_bytes) ==
    \E i \in 1..(Len(buffer) - Len(response_bytes) + 1) :
        SubSeq(buffer, i, i + Len(response_bytes) - 1) = response_bytes

\* for response_str in RESPONSE_STR_TABLE.iter() { if exists { return ... } }
RECURSIVE ScanFrom(_, _)
ScanFrom(buffer, t) ==
    IF t > Len(RESPONSE_STR_TABLE) THEN "none"
    ELSE IF Exists(buffer, RESPONSE_STR_TABLE[t]) THEN FromStr(RESPONSE_STR_TABLE[t])
    ELSE ScanFrom(buffer, t + 1)
Scan(buffer) == ScanFrom(buffer, 1)

\* Err(std::io::Error::new(std::io::ErrorKind::TimedOut, "Timeout"))
TimeoutError_AsFail == "Fail"
TimeoutError == "Timeout"

\* let timeout = match cmd { Command::EraseAll { .. } => 30 * 1000, _ => TIMEOUT };
\* send_data compares against TIMEOUT
Deadline_AlwaysDefault(cmd) == TIMEOUT
Deadline(cmd) == IF cmd = "EraseAll" THEN ERASE_ALL_TIMEOUT ELSE TIMEOUT

\* The calls looked at: the command with the long deadline, one with the
\* default deadline, the fire-and-forget one, and send_data
CodecCalls == {"EraseAll", "Verify", "SetBaud", "Data"}

\* What the device sends: up to MaxPieces pieces, each a token, a garbage
\* byte or the beginning of a token
Pieces ==
    { <<"O", "K">>, <<"F", "a", "i", "l">>, <<"R", "X", "_", "W", "A", "I", "T">>,
      <<"g">>, <<"O">>, <<"R", "X", "_">> }

RECURSIVE Concat(_)
Concat(ss) == IF ss = <<>> THEN <<>> ELSE Head(ss) \o Concat(Tail(ss))

Streams == { Concat(ss) : ss \in SeqsUpTo(Pieces, MaxPieces) }

\* bytes left in the input buffer by an earlier exchange
StaleBytes == { <<>>, <<"O", "K">> }

\* time a successful single-byte read may have taken, and the time after
\* which a failed one returns (the port timeout, or an early I/O error)
ByteDelays == {0, 2500}
ReadErrorDelays == {2500, PORT_TIMEOUT}

FlashIdle ==
    /\ files = <<>>
    /\ erase_all = FALSE
    /\ verify = FALSE
    /\ compat = FALSE
    /\ pc = "idle"
    /\ idx = 1
    /\ eidx = 1
    /\ erase_address = <<>>
    /\ pos = 0
    /\ address = 0
    /\ bytes_read = 0
    /\ log = <<>>
    /\ completed = <<>>
    /\ result = "none"

InitCodec ==
    /\ BootIdle
    /\ FlashIdle
    /\ NormIdle
    /\ MainIdle
    /\ c_cmd \in CodecCalls
    /\ c_pc = "write"
    /\ c_stream \in Streams
    /\ c_rx \in StaleBytes
    /\ c_fresh = 0
    /\ c_lost = <<>>
    /\ c_buffer = <<>>
    /\ c_elapsed = 0
    /\ c_result = "none"

\* command(): self.port.write_all(cmd.to_string().as_bytes())?; self.port.flush()?;
CommandWrite ==
    /\ c_pc = "write"
    /\ c_cmd # "Data"
    /\ c_pc' = "clear"
    /\ UNCHANGED <<c_cmd, c_stream, c_rx, c_fresh, c_lost, c_buffer, c_elapsed, c_result>>
    /\ UNCHANGED nonCodecVars

\* match cmd { Command::SetBaud { .. } => { return Ok(Response::Ok); } _ => {} }
AwaitsResponse_Always(cmd) == TRUE
AwaitsResponse(cmd) == cmd # "SetBaud"

\* command(): self.port.clear(serialport::ClearBuffer::All)?; then SetBaud
\* returns Ok(Response::Ok) at once, every other command starts the clock
CommandClear ==
    /\ c_pc = "clear"
    /\ c_rx' = <<>>
    /\ c_fresh' = 0
    /\ c_lost' = c_lost \o SubSeq(c_rx, Len(c_rx) - c_fresh + 1, Len(c_rx))
    /\ IF ~ AwaitsResponse(c_cmd)
       THEN /\ c_result' = "Ok"
            /\ c_pc' = "done"
       ELSE /\ c_pc' = "read"
            /\ UNCHANGED c_result
    /\ c_elapsed' = 0
    /\ UNCHANGED <<c_cmd, c_stream, c_buffer>>
    /\ UNCHANGED nonCodecVars

\* send_data(): self.port.write_all(data)?; self.port.flush()?; (in pieces of
\* 256 bytes in compatibility mode), then the clock starts; nothing is cleared
SendDataWrite ==
    /\ c_pc = "write"
    /\ c_cmd = "Data"
    /\ c_pc' = "read"
    /\ c_elapsed' = 0
    /\ UNCHANGED <<c_cmd, c_stream, c_rx, c_fresh, c_lost, c_buffer, c_result>>
    /\ UNCHANGED nonCodecVars

\* the device: the next byte of its answer reaches the port's input buffer
DeviceSend ==
    /\ c_pc \in {"clear", "read"}
    /\ c_stream # <<>>
    /\ Len(c_rx) < MaxRx
    /\ c_rx' = Append(c_rx, Head(c_stream))
    /\ c_fresh' = c_fresh + 1
    /\ c_stream' = Tail(c_stream)
    /\ UNCHANGED <<c_cmd, c_pc, c_lost, c_buffer, c_elapsed, c_result>>
    /\ UNCHANGED nonCodecVars

\* read loop: if elapsed > timeout { return Err(TimedOut) }
LoopTimeout ==
    /\ c_pc = "read"
    /\ c_elapsed > Deadline(c_cmd)
    /\ c_result' = TimeoutError
    /\ c_pc' = "done"
    /\ UNCHANGED <<c_cmd, c_stream, c_rx, c_fresh, c_lost, c_buffer, c_elapsed>>
    /\ UNCHANGED nonCodecVars

\* read loop: read_exact failed -> continue
ReadError ==
    /\ c_pc = "read"
    /\ c_elapsed <= Deadline(c_cmd)
    /\ c_rx = <<>>
    /\ \E d \in ReadErrorDelays : c_elapsed' = c_elapsed + d
    /\ UNCHANGED <<c_cmd, c_pc, c_stream, c_rx, c_fresh, c_lost, c_buffer, c_result>>
    /\ UNCHANGED nonCodecVars

\* read loop: read_exact returned a byte; buffer.push(byte[0]); scan the table
ReadByte ==
    /\ c_pc = "read"
    /\ c_elapsed <= Deadline(c_cmd)
    /\ c_rx # <<>>
    /\ c_rx' = Tail(c_rx)
    /\ c_fresh' = Min(c_fresh, Len(c_rx) - 1)
    /\ c_buffer' = Append(c_buffer, Head(c_rx))
    /\ \E d \in ByteDelays : c_elapsed' = c_elapsed + d
    /\ IF Scan(c_buffer') # "none"
       THEN /\ c_result' = Scan(c_buffer')
            /\ c_pc' = "done"
       ELSE UNCHANGED <<c_result, c_pc>>
    /\ UNCHANGED <<c_cmd, c_stream, c_lost>>
    /\ UNCHANGED nonCodecVars

NextCodec ==
    \/ CommandWrite
    \/ CommandClear
    \/ SendDataWrite
    \/ DeviceSend
    \/ LoopTimeout
    \/ ReadError
    \/ ReadByte

SpecCodec == InitCodec /\ [][NextCodec]_vars

\* the steps of the calling thread: it runs on as long as every blocking
\* call (write, flush, clear, read_exact) returns; the device owes nothing
CodecStep ==
    \/ CommandWrite
    \/ CommandClear
    \/ SendDataWrite
    \/ LoopTimeout
    \/ ReadError
    \/ ReadByte

SpecCodecLive == SpecCodec /\ WF_vars(CodecStep)

----------------------------------------------------------------------------
\* get_file_crc32: crc::Algorithm { width: 32, poly: 0x04C11DB7, init: 0,
\* refin: true, refout: true, xorout: 0 }.  A u32 is kept as its four bytes,
\* least significant first.

\* xor of two numbers below 2^n
RECURSIVE BitXor(_, _, _)
BitXor(a, b, n) ==
    IF n = 0 THEN 0
    ELSE ((a + b) % 2) + 2 * BitXor(a \div 2, b \div 2, n - 1)

Xor4 == [a \in 0..15 |-> [b \in 0..15 |-> BitXor(a, b, 4)]]
XorByte(a, b) == 16 * Xor4[a \div 16][b \div 16] + Xor4[a % 16][b % 16]
Xor32(c, d) ==
    <<XorByte(c[1], d[1]), XorByte(c[2], d[2]), XorByte(c[3], d[3]), XorByte(c[4], d[4])>>
Shr1(c) ==
    <<(c[1] \div 2) + 128 * (c[2] % 2), (c[2] \div 2) + 128 * (c[3] % 2),
      (c[3] \div 2) + 128 * (c[4] % 2), c[4] \div 2>>
Shr8(c) == <<c[2], c[3], c[4], 0>>

\* refin / refout: the bits in reverse order
RECURSIVE ReflectBits(_, _)
ReflectBits(b, n) ==
    IF n = 0 THEN 0 ELSE (b % 2) * (2 ^ (n - 1)) + ReflectBits(b \div 2, n - 1)
Reflect32(c) ==
    <<ReflectBits(c[4], 8), ReflectBits(c[3], 8), ReflectBits(c[2], 8), ReflectBits(c[1], 8)>>

CRC_POLY == <<183, 29, 193, 4>>
CRC_INIT == <<0, 0, 0, 0>>
CRC_XOROUT == <<0, 0, 0, 0>>

RECURSIVE TableEntry(_, _)
TableEntry(c, n) ==
    IF n = 0 THEN c
    ELSE TableEntry(IF c[1] % 2 = 1 THEN Xor32(Shr1(c), Reflect32(CRC_POLY)) ELSE Shr1(c), n - 1)
CrcTable == [i \in 0..255 |-> TableEntry(<<i, 0, 0, 0>>, 8)]

\* digest.update, one byte
Update(crc, byte) == Xor32(CrcTable[XorByte(crc[1], byte)], Shr8(crc))

\* digest.update over data[lo..hi]; the left half is computed before the right
RECURSIVE Digest(_, _, _, _)
Digest(data, lo, hi, crc) ==
    IF lo > hi THEN crc
    ELSE IF lo = hi THEN Update(crc, data[lo])
    ELSE LET mid == (lo + hi) \div 2
             left == Digest(data, lo, mid, crc)
         IN IF left = left THEN Digest(data, mid + 1, hi, left) ELSE left

get_file_crc32(data) == Xor32(Digest(data, 1, Len(data), CRC_INIT), CRC_XOROUT)

----------------------------------------------------------------------------
\* hex_to_bin

\* vec![0xFF; gap_size]
Fill(n) == [i \in 1..n |-> FILL_BYTE]

\* the Data arm: fill the gap up to offset, seek to offset, write value
WriteAt(temp_file, offset, value) ==
    LET filled == IF Len(temp_file) < offset
                  THEN temp_file \o Fill(offset - Len(temp_file))
                  ELSE temp_file
        end == IF Len(filled) > offset + Len(value) THEN Len(filled) ELSE offset + Len(value)
    IN  [i \in 1..end |-> IF i > offset /\ i <= offset + Len(value)
                          THEN value[i - offset]
                          ELSE filled[i]]

\* one iteration of the loop over the lines of the file
HexStep(st, rec) ==
    IF st.err # "none" THEN st
    ELSE IF rec.type = "Malformed" THEN [st EXCEPT !.err = "InvalidHex"]
    ELSE IF rec.type = "ExtendedLinearAddress"
    THEN [st EXCEPT !.address = rec.addr * 65536]
    ELSE IF rec.type = "Data"
    THEN [st EXCEPT !.temp_file = WriteAt(st.temp_file, rec.offset, rec.value)]
    ELSE IF rec.type = "EndOfFile"
    THEN [st EXCEPT !.out = Append(st.out, [address |-> st.address,
                                            crc32 |-> get_file_crc32(st.temp_file)])]
    ELSE st

\* (the state of an iteration is computed once, then handed on)
RECURSIVE HexLoop(_, _, _)
HexLoop(records, i, st) ==
    IF i > Len(records) THEN st
    ELSE CHOOSE r \in { HexLoop(records, i + 1, next) : next \in { HexStep(st, records[i]) } } : TRUE

\* Every chunk pushed holds a clone of the one temp file: its bytes are the
\* bytes of that file when the loop is over, its crc32 the one taken at its
\* EndOfFile record.
HexResult(st) ==
    [err |-> st.err,
     chunks |-> [k \in 1..Len(st.out) |->
                    [address |-> st.out[k].address,
                     data |-> st.temp_file,
                     crc32 |-> st.out[k].crc32]]]

hex_to_bin(records) ==
    CHOOSE r \in { HexResult(st) :
                    st \in { HexLoop(records, 1, [address |-> 0, temp_file |-> <<>>,
                                                  out |-> <<>>, err |-> "none"]) } } : TRUE

----------------------------------------------------------------------------
\* elf_to_bin

\* ph.p_type == PT_LOAD && ph.p_paddr < 0x2000_0000
Selected(ph) == ph.p_type = "PT_LOAD" /\ ph.p_paddr < RAM_BASE

\* load_segments.sort_by_key(|ph| ph.p_paddr), a stable sort
RECURSIVE InsertByPaddr(_, _)
InsertByPaddr(sorted, ph) ==
    IF sorted = <<>> THEN <<ph>>
    ELSE IF sorted[Len(sorted)].p_paddr <= ph.p_paddr THEN Append(sorted, ph)
    ELSE Append(InsertByPaddr(SubSeq(sorted, 1, Len(sorted) - 1), ph), sorted[Len(sorted)])

RECURSIVE SortByPaddr(_)
SortByPaddr(phs) ==
    IF phs = <<>> THEN <<>>
    ELSE InsertByPaddr(SortByPaddr(SubSeq(phs, 1, Len(phs) - 1)), phs[Len(phs)])

\* vaddr & !(SECTOR_SIZE - 1)
AlignDown(vaddr) == (vaddr \div SECTOR_SIZE) * SECTOR_SIZE

\* if segment_base > current_base + current_offset
StartsNewFile_IgnoringOffset(segment_base, current_base, current_offset) ==
    segment_base > current_base
StartsNewFile(segment_base, current_base, current_offset) ==
    segment_base > current_base + current_offset

\* &mmap[offset..offset + size]
SegmentData(ph) == [i \in 1..ph.p_filesz |-> ph.fill]

\* one iteration of `for ph in load_segments.iter()`
ElfStep(st, ph) ==
    LET vaddr == ph.p_paddr
        segment_base == AlignDown(vaddr)
        fresh == StartsNewFile(segment_base, st.current_base, st.current_offset)
        out1 == IF fresh
                THEN Append(st.out, [address |-> st.current_base,
                                     data |-> st.current_file,
                                     crc32 |-> get_file_crc32(st.current_file)])
                ELSE st.out
        base1 == IF fresh THEN segment_base ELSE st.current_base
        file1 == IF fresh THEN <<>> ELSE st.current_file
        off1 == IF fresh THEN 0 ELSE st.current_offset
        relative_offset == vaddr - base1
        padded == off1 < relative_offset
        file2 == IF padded THEN file1 \o Fill(relative_offset - off1) ELSE file1
        off2 == IF padded THEN relative_offset ELSE off1
    IN  [current_base |-> base1,
         current_file |-> file2 \o SegmentData(ph),
         current_offset |-> off2 + ph.p_filesz,
         out |-> out1]

RECURSIVE ElfLoop(_, _, _)
ElfLoop(load_segments, i, st) ==
    IF i > Len(load_segments) THEN st
    ELSE CHOOSE r \in { ElfLoop(load_segments, i + 1, next) :
                         next \in { ElfStep(st, load_segments[i]) } } : TRUE

\* if current_offset > 0 { ... push the last file ... }
ElfLast(st) ==
    IF st.current_offset > 0
    THEN Append(st.out, [address |-> st.current_base,
                         data |-> st.current_file,
                         crc32 |-> get_file_crc32(st.current_file)])
    ELSE st.out

ElfSegments(load_segments) ==
    IF load_segments = <<>> THEN <<>>
    ELSE CHOOSE r \in { ElfLast(st) :
                         st \in { ElfLoop(load_segments, 1,
                                          [current_base |-> AlignDown(load_segments[1].p_paddr),
                                           current_file |-> <<>>,
                                           current_offset |-> 0,
                                           out |-> <<>>]) } } : TRUE

elf_to_bin(phs) ==
    CHOOSE r \in { ElfSegments(load_segments) :
                    load_segments \in { SortByPaddr(SelectSeq(phs, Selected)) } } : TRUE

----------------------------------------------------------------------------
\* str_to_u32

\* char::to_digit: the value of a digit character, letters in either case
DigitValue ==
    ("0" :> 0) @@ ("1" :> 1) @@ ("2" :> 2) @@ ("3" :> 3) @@ ("4" :> 4) @@
    ("5" :> 5) @@ ("6" :> 6) @@ ("7" :> 7) @@ ("8" :> 8) @@ ("9" :> 9) @@
    ("a" :> 10) @@ ("b" :> 11) @@ ("c" :> 12) @@ ("d" :> 13) @@ ("e" :> 14) @@ ("f" :> 15) @@
    ("A" :> 10) @@ ("B" :> 11) @@ ("C" :> 12) @@ ("D" :> 13) @@ ("E" :> 14) @@ ("F" :> 15)

ToDigit(c, radix) ==
    IF c \in DOMAIN DigitValue /\ DigitValue[c] < radix THEN DigitValue[c] ELSE -1

\* u32::MAX div radix and u32::MAX mod radix, for the overflow test of
\* checked_mul / checked_add (u32::MAX = 4294967295)
U32MaxDiv(radix) ==
    IF radix = 16 THEN 268435455
    ELSE IF radix = 8 THEN 536870911
    ELSE IF radix = 2 THEN 2147483647
    ELSE 429496729
U32MaxMod(radix) ==
    IF radix = 16 THEN 15 ELSE IF radix = 8 THEN 7 ELSE IF radix = 2 THEN 1 ELSE 5

ParseError == [err |-> "ParseIntError", value |-> 0]

\* the digit loop of u32::from_str_radix: result = result * radix + digit,
\* an error on a character that is no digit of the radix or on overflow
RECURSIVE Accumulate(_, _, _, _)
Accumulate(digits, i, acc, radix) ==
    IF i > Len(digits) THEN [err |-> "none", value |-> acc]
    ELSE IF ToDigit(digits[i], radix) < 0 THEN ParseError
    ELSE IF acc > U32MaxDiv(radix)
            \/ (acc = U32MaxDiv(radix) /\ ToDigit(digits[i], radix) > U32MaxMod(radix))
    THEN ParseError
    ELSE Accumulate(digits, i + 1, acc * radix + ToDigit(digits[i], radix), radix)

\* u32::from_str_radix: empty -> error; a lone sign -> error; a leading '+'
\* is skipped, a '-' is no digit
from_str_radix(src, radix) ==
    IF src = <<>> THEN ParseError
    ELSE IF Len(src) = 1 /\ src[1] \in {"+", "-"} THEN ParseError
    ELSE Accumulate(IF src[1] = "+" THEN Tail(src) ELSE src, 1, 0, radix)

\* s.strip_prefix(p).is_some()
HasPrefix(s, p) == Len(s) >= Len(p) /\ SubSeq(s, 1, Len(p)) = p
StripPrefix(s, p) == SubSeq(s, Len(p) + 1, Len(s))

str_to_u32_DecimalOnly(s) == from_str_radix(s, 10)
str_to_u32(s) ==
    IF HasPrefix(s, <<"0", "x">>) THEN from_str_radix(StripPrefix(s, <<"0", "x">>), 16)
    ELSE IF HasPrefix(s, <<"0", "b">>) THEN from_str_radix(StripPrefix(s, <<"0", "b">>), 2)
    ELSE IF HasPrefix(s, <<"0", "o">>) THEN from_str_radix(StripPrefix(s, <<"0", "o">>), 8)
    ELSE from_str_radix(s, 10)

----------------------------------------------------------------------------
\* The inputs of the normalizer

NoRecord == [type |-> "none", addr |-> 0, offset |-> 0, value |-> <<>>]
DataRecord(o, v) == [NoRecord EXCEPT !.type = "Data", !.offset = o, !.value = v]
ELARecord(a) == [NoRecord EXCEPT !.type = "ExtendedLinearAddress", !.addr = a]
EOFRecord == [NoRecord EXCEPT !.type = "EndOfFile"]

\* records of an Intel HEX file: data at the start, data behind a gap, an
\* empty data record, two upper address halves (0x1200, 0x1000), a record of
\* another type, a line that does not parse
HexRecordKinds ==
    { DataRecord(0, <<17>>), DataRecord(3, <<34, 34>>), DataRecord(2, <<>>),
      ELARecord(4608), ELARecord(4096),
      [NoRecord EXCEPT !.type = "StartLinearAddress"],
      [NoRecord EXCEPT !.type = "Malformed"] }

\* a HEX file: up to MaxRecords records, then the EndOfFile record or none
HexFiles ==
    LET bodies == SeqsUpTo(HexRecordKinds, MaxRecords)
    IN  bodies \cup { Append(b, EOFRecord) : b \in bodies }

Ph(t, paddr, filesz, fill) ==
    [p_type |-> t, p_paddr |-> paddr, p_filesz |-> filesz, fill |-> fill]

\* program headers of an ELF file, around the flash address 0x12000000:
\* two segments of one sector with a gap, one overlapping the second, a long
\* one ending in the next sector, one in the next sector, an empty one, one
\* in RAM, one that is not PT_LOAD
PhKinds ==
    { Ph("PT_LOAD", 301989888, 2, 17),
      Ph("PT_LOAD", 301989892, 2, 34),
      Ph("PT_LOAD", 301989893, 2, 51),
      Ph("PT_LOAD", 301989890, SECTOR_SIZE, 68),
      Ph("PT_LOAD", 301993988, 2, 85),
      Ph("PT_LOAD", 301989888, 0, 0),
      Ph("PT_LOAD", RAM_BASE, 2, 102),
      Ph("PT_NOTE", 301989896, 2, 119) }

ElfFiles == { p \in SeqsUpTo(PhKinds, MaxSegments) :
                \A i, j \in 1..Len(p) : i # j => p[i] # p[j] }

NoBody == [t |-> "missing", bytes |-> <<>>, records |-> <<>>, phs |-> <<>>]
RawBody(b) == [NoBody EXCEPT !.t = "raw", !.bytes = b]
HexBody(r) == [NoBody EXCEPT !.t = "hex", !.records = r]
ElfBody(p) == [NoBody EXCEPT !.t = "elf", !.phs = p]

\* an entry of file_path: `at` tells whether the entry splits at one '@' into
\* a path and an address ("at") or not ("none"), `value` is the text behind
\* the '@'; `ext` is the extension of the path
Input(at, value, ext, body) == [at |-> at, value |-> value, ext |-> ext, body |-> body]

\* texts behind the '@', each with the number it denotes as a 0x, 0b, 0o or
\* decimal literal (-1: it denotes none)
AddressTable ==
    { [text |-> <<"0", "x", "1", "2", "0", "0", "0", "0", "0", "0">>, means |-> 301989888],
      [text |-> <<"0", "x", "1", "0", "0", "0", "0", "0", "0", "0">>, means |-> 268435456],
      [text |-> <<"0", "x", "1", "2", "0", "0", "0", "0", "0", "2">>, means |-> 301989890],
      [text |-> <<"0", "x", "1", "F">>, means |-> 31],
      [text |-> <<"0", "x", "a", "b">>, means |-> 171],
      [text |-> <<"0", "b", "1", "0", "1">>, means |-> 5],
      [text |-> <<"0", "o", "1", "7">>, means |-> 15],
      [text |-> <<"3", "0", "5">>, means |-> 305],
      [text |-> <<"0", "1", "0">>, means |-> 10],
      [text |-> <<"0">>, means |-> 0],
      [text |-> <<"2", "1", "4", "7", "4", "8", "3", "6", "4", "7">>, means |-> 2147483647],
      [text |-> <<>>, means |-> -1],
      [text |-> <<"0", "x">>, means |-> -1],
      [text |-> <<"0", "x", "1", "G">>, means |-> -1],
      [text |-> <<"0", "X", "1", "0">>, means |-> -1],
      [text |-> <<"0", "b", "1", "2">>, means |-> -1],
      [text |-> <<"0", "o", "1", "8">>, means |-> -1],
      [text |-> <<"1", "2", "g">>, means |-> -1],
      [text |-> <<"-", "5">>, means |-> -1],
      [text |-> <<"4", "2", "9", "4", "9", "6", "7", "2", "9", "6">>, means |-> -1],
      [text |-> <<"0", "x", "1", "0", "0", "0", "0", "0", "0", "0", "0">>, means |-> -1] }

\* the ASCII text "123456789", whose CRC the Algorithm of get_file_crc32
\* names as `check`
CheckText == <<49, 50, 51, 52, 53, 54, 55, 56, 57>>

\* contents of a raw binary: ten bytes 0xAB, the check text, nothing
RawContents == { [i \in 1..10 |-> 171], CheckText, <<>> }

\* path@address inputs, one per run
AddressInputs ==
    { Input("at", e.text, "bin", RawBody(b)) : e \in AddressTable, b \in RawContents }

\* inputs that exercise hex_to_bin and elf_to_bin, one file per run
RichInputs ==
    { Input("none", <<>>, "hex", HexBody(r)) : r \in HexFiles } \cup
    { Input("none", <<>>, "elf", ElfBody(p)) : p \in ElfFiles }

\* inputs that exercise the loop over file_path, several files per run
SimpleInputs ==
    { Input("at", <<"0", "x", "1", "2", "0", "0", "0", "0", "0", "0">>, "bin", RawBody(<<171, 171, 171>>)),
      Input("at", <<"0", "x", "1", "0", "0", "0", "0", "0", "0", "0">>, "bin", RawBody(<<171>>)),
      Input("at", <<"0", "x", "1", "2", "0", "0", "0", "0", "0", "2">>, "bin", RawBody(<<>>)),
      Input("at", <<"1", "2", "g">>, "bin", RawBody(<<171>>)),
      Input("at", <<"0", "x", "1", "0", "0", "0", "0", "0", "0", "0">>, "bin", NoBody),
      Input("none", <<>>, "bin", RawBody(<<171>>)),
      Input("none", <<>>, "txt", RawBody(<<171, 171, 171, 171>>)),
      Input("none", <<>>, "img", ElfBody(<<Ph("PT_LOAD", 301989888, 2, 17)>>)),
      Input("none", <<>>, "HEX", HexBody(<<DataRecord(0, <<17>>), EOFRecord>>)),
      Input("none", <<>>, "axf", ElfBody(<<Ph("PT_LOAD", 301993988, 2, 85),
                                     Ph("PT_LOAD", 301989888, 2, 17)>>)) }

\* detect_file_type: the extension, lower-cased, else the ELF magic
detect_file_type(input) ==
    IF input.ext \in {"bin", "BIN"} THEN "Bin"
    ELSE IF input.ext \in {"hex", "HEX"} THEN "Hex"
    ELSE IF input.ext \in {"elf", "ELF", "axf", "AXF"} THEN "Elf"
    ELSE IF input.body.t = "missing" THEN "NotFound"
    ELSE IF input.body.t = "elf" THEN "Elf"
    ELSE "Unrecognized file type"

\* the body of `for file in params.file_path.iter()`: the chunks an input
\* contributes, or the error the loop returns
Normalize(input) ==
    IF input.at # "none"
    THEN LET addr == str_to_u32(input.value)
         IN  IF addr.err # "none" THEN [err |-> addr.err, chunks |-> <<>>]
             ELSE IF input.body.t = "missing" THEN [err |-> "NotFound", chunks |-> <<>>]
             ELSE [err |-> "none",
                   chunks |-> << [address |-> addr.value,
                                  data |-> input.body.bytes,
                                  crc32 |-> get_file_crc32(input.body.bytes)] >>]
    ELSE LET file_type == detect_file_type(input)
         IN  IF file_type = "Hex"
             THEN IF input.body.t = "missing" THEN [err |-> "NotFound", chunks |-> <<>>]
                  ELSE IF input.body.t # "hex" THEN [err |-> "InvalidHex", chunks |-> <<>>]
                  ELSE hex_to_bin(input.body.records)
             ELSE IF file_type = "Elf"
             THEN IF input.body.t = "missing" THEN [err |-> "NotFound", chunks |-> <<>>]
                  ELSE IF input.body.t # "elf" THEN [err |-> "InvalidElf", chunks |-> <<>>]
                  ELSE [err |-> "none", chunks |-> elf_to_bin(input.body.phs)]
             ELSE IF file_type = "Bin"
             THEN [err |-> "For binary files, please use the <file@address> format", chunks |-> <<>>]
             ELSE [err |-> file_type, chunks |-> <<>>]

InitNorm ==
    /\ BootIdle
    /\ FlashIdle
    /\ CodecIdle
    /\ MainIdle
    /\ n_inputs \in { <<x>> : x \in RichInputs \cup AddressInputs }
                        \cup SeqsUpTo(SimpleInputs, MaxFiles)
    /\ n_i = 1
    /\ n_files = <<>>
    /\ n_pc = "loop"
    /\ n_result = "running"

\* one iteration of the loop: the chunks of the input are appended, each
\* remembering the input it came from, or the error is returned
NormalizeInput ==
    /\ n_pc = "loop"
    /\ n_i <= Len(n_inputs)
    /\ \E r \in { Normalize(n_inputs[n_i]) } :
           IF r.err # "none"
           THEN /\ n_result' = r.err
                /\ n_pc' = "done"
                /\ UNCHANGED <<n_files, n_i>>
           ELSE /\ n_files' = n_files \o [k \in 1..Len(r.chunks) |->
                                  [address |-> r.chunks[k].address,
                                   data |-> r.chunks[k].data,
                                   crc32 |-> r.chunks[k].crc32,
                                   src |-> n_i]]
                /\ n_i' = n_i + 1
                /\ UNCHANGED <<n_result, n_pc>>
    /\ UNCHANGED n_inputs
    /\ UNCHANGED nonNormVars

\* the loop is over: the list goes to erase_all and the chunk loop
NormalizeDone ==
    /\ n_pc = "loop"
    /\ n_i > Len(n_inputs)
    /\ n_pc' = "done"
    /\ n_result' = "Ok"
    /\ UNCHANGED <<n_inputs, n_i, n_files>>
    /\ UNCHANGED nonNormVars

NextNorm ==
    \/ NormalizeInput
    \/ NormalizeDone

SpecNorm == InitNorm /\ [][NextNorm]_vars

----------------------------------------------------------------------------
\* main(): set_speed if a baud rate was asked for, write_flash, soft_reset

\* --baud values: the default and two others
Bauds == {DEFAULT_BAUD, 115200, 6000000}

\* the file lists of a session: raw binaries at two addresses, an address
\* that does not parse, a file that does not exist, a .bin without address,
\* a file of no known type, a HEX file, a HEX file with a malformed record
SessionInputs ==
    { Input("at", <<"0", "x", "1", "2", "0", "0", "0", "0", "0", "0">>, "bin", RawBody(<<171, 171, 171>>)),
      Input("at", <<"0", "x", "1", "0", "0", "0", "0", "0", "0", "0">>, "bin", RawBody(<<171>>)),
      Input("at", <<"1", "2", "g">>, "bin", RawBody(<<171>>)),
      Input("at", <<"0", "x", "1", "0", "0", "0", "0", "0", "0", "0">>, "bin", NoBody),
      Input("none", <<>>, "bin", RawBody(<<171>>)),
      Input("none", <<>>, "txt", RawBody(<<171, 171, 171, 171>>)),
      Input("none", <<>>, "HEX", HexBody(<<DataRecord(0, <<17>>), EOFRecord>>)),
      Input("none", <<>>, "hex", HexBody(<<[NoRecord EXCEPT !.type = "Malformed"]>>)) }

InitMain ==
    /\ BootIdle
    /\ CodecIdle
    /\ n_inputs \in SeqsUpTo(SessionInputs, MaxFiles)
    /\ n_i = 1
    /\ n_files = <<>>
    /\ n_pc = "idle"
    /\ n_result = "none"
    /\ files = <<>>
    /\ erase_all \in BOOLEAN
    /\ verify \in BOOLEAN
    /\ compat \in BOOLEAN
    /\ pc = "idle"
    /\ idx = 1
    /\ eidx = 1
    /\ erase_address = <<>>
    /\ pos = 0
    /\ address = 0
    /\ bytes_read = 0
    /\ log = <<>>
    /\ completed = <<>>
    /\ result = "none"
    /\ m_pc = "start"
    /\ m_baud \in Bauds
    /\ m_after \in BOOLEAN
    /\ port_baud = DEFAULT_BAUD

\* if args.baud != 1000000 { siflitool.set_speed(args.baud).unwrap(); } -- not taken
NoSetSpeed ==
    /\ m_pc = "start"
    /\ m_baud = DEFAULT_BAUD
    /\ m_pc' = "call_write_flash"
    /\ UNCHANGED <<m_baud, m_after, port_baud>>
    /\ UNCHANGED <<flashVars, codecVars, normVars, bootVars>>

\* set_speed: self.command(Command::SetBaud { baud: speed, delay: 500 }), the write
SetSpeedSend ==
    /\ m_pc = "start"
    /\ m_baud # DEFAULT_BAUD
    /\ log' = Append(log, Entry("SetBaud", 0, m_baud, SET_BAUD_DELAY, 0))
    /\ m_pc' = "set_speed_wait"
    /\ UNCHANGED <<files, erase_all, verify, compat, pc, idx, eidx, erase_address,
                   pos, address, bytes_read, completed, result>>
    /\ UNCHANGED <<m_baud, m_after, port_baud>>
    /\ UNCHANGED <<codecVars, normVars, bootVars>>

\* soft_reset: self.command(Command::SoftReset), the write
SoftResetSend ==
    /\ m_pc = "soft_reset"
    /\ log' = Append(log, Entry("SoftReset", 0, 0, 0, 0))
    /\ m_pc' = "soft_reset_wait"
    /\ UNCHANGED <<files, erase_all, verify, compat, pc, idx, eidx, erase_address,
                   pos, address, bytes_read, completed, result>>
    /\ UNCHANGED <<m_baud, m_after, port_baud>>
    /\ UNCHANGED <<codecVars, normVars, bootVars>>

\* the rest of command() for the two commands main issues: SetBaud returns
\* Ok(Response::Ok) without a read, SoftReset reads up to a token or the
\* deadline; set_speed then sets the baud rate of the port
\* (self.port.set_baud_rate(speed)?), and an Err is unwrapped: a panic
MainCommandReturn ==
    /\ m_pc \in {"set_speed_wait", "soft_reset_wait"}
    /\ \E r \in IF AwaitsResponse(log[Len(log)].op) THEN CommandOutcomes ELSE {"NotAwaited"} :
        /\ log' = IF r = "NotAwaited" THEN log ELSE Classify(r)
        /\ IF r = "Timeout"
           THEN /\ m_pc' = "panic"
                /\ UNCHANGED port_baud
           ELSE IF m_pc = "set_speed_wait"
           THEN /\ port_baud' = m_baud
                /\ m_pc' = "call_write_flash"
           ELSE /\ m_pc' = "exit"
                /\ UNCHANGED port_baud
    /\ UNCHANGED <<files, erase_all, verify, compat, pc, idx, eidx, erase_address,
                   pos, address, bytes_read, completed, result>>
    /\ UNCHANGED <<m_baud, m_after>>
    /\ UNCHANGED <<codecVars, normVars, bootVars>>

\* write_all / flush of the command line failed, or set_baud_rate failed:
\* the Err is unwrapped in main
MainTransportError ==
    /\ \/ m_pc = "start" /\ m_baud # DEFAULT_BAUD
       \/ m_pc = "set_speed_wait"
       \/ m_pc = "soft_reset"
    /\ m_pc' = "panic"
    /\ UNCHANGED <<m_baud, m_after, port_baud>>
    /\ UNCHANGED <<flashVars, codecVars, normVars, bootVars>>

\* Some(Commands::WriteFlash(_)) => siflitool.write_flash(): the loop over
\* file_path begins
WriteFlashBegin ==
    /\ m_pc = "call_write_flash"
    /\ m_pc' = "write_flash"
    /\ n_pc' = "loop"
    /\ n_result' = "running"
    /\ UNCHANGED <<n_inputs, n_i, n_files>>
    /\ UNCHANGED <<m_baud, m_after, port_baud>>
    /\ UNCHANGED <<flashVars, codecVars, bootVars>>

\* the `?` of the loop over file_path
ImageError_Ignored(r) == FALSE
ImageError(r) == r # "Ok"

\* the loop over file_path has ended: with an error, which write_flash
\* returns, or with the chunk list, which goes to erase_all and the chunk loop
HandOver ==
    /\ m_pc = "write_flash"
    /\ n_pc = "done"
    /\ pc = "idle"
    /\ IF ImageError(n_result)
       THEN /\ result' = n_result
            /\ pc' = "done"
            /\ UNCHANGED <<files, completed>>
       ELSE /\ files' = [k \in 1..Len(n_files) |->
                            [address |-> n_files[k].address,
                             len |-> Len(n_files[k].data),
                             crc32 |-> n_files[k].crc32]]
            /\ completed' = [k \in 1..Len(n_files) |-> 0]
            /\ result' = "running"
            /\ pc' = "start"
    /\ UNCHANGED <<erase_all, verify, compat, idx, eidx, erase_address,
                   pos, address, bytes_read, log>>
    /\ UNCHANGED nonFlashVars

\* let res = ...write_flash(); if let Err(e) = res { eprintln!(...) }
\* if args.after != Operation::None { siflitool.soft_reset().unwrap(); }
WriteFlashReturn ==
    /\ m_pc = "write_flash"
    /\ pc = "done"
    /\ m_pc' = IF m_after THEN "soft_reset" ELSE "exit"
    /\ UNCHANGED <<m_baud, m_after, port_baud>>
    /\ UNCHANGED <<flashVars, codecVars, normVars, bootVars>>

NextMain ==
    \/ NoSetSpeed
    \/ SetSpeedSend
    \/ SoftResetSend
    \/ MainCommandReturn
    \/ MainTransportError
    \/ WriteFlashBegin
    \/ NormalizeInput
    \/ NormalizeDone
    \/ HandOver
    \/ WriteFlashReturn
    \/ Start
    \/ EraseSkip
    \/ EraseSend
    \/ EraseResp
    \/ EraseDone
    \/ AllChunksDone
    \/ SkipCheckSend
    \/ SkipCheckResp
    \/ WriteAndEraseSend
    \/ WriteAndEraseResp
    \/ StreamBreak
    \/ StreamSend
    \/ StreamResp
    \/ EraseAllPathBegin
    \/ EraseAllPathBreak
    \/ WriteLineSend
    \/ WriteDataSend
    \/ WriteDataResp
    \/ NoPostVerify
    \/ PostVerifySend
    \/ PostVerifyResp
    \/ TransportError

SpecMain == InitMain /\ [][NextMain]_vars

----------------------------------------------------------------------------
\* SifliTool::new: download_stub through the debug probe, then the serial
\* port is opened and the debug UART is switched off again

STUB_ADDR == 537239552
STUB_COMPAT_PACKET == 256
STUB_PACKET == 65536

\* `buf` of SifliTool::new and the line end written behind it
MAGIC == <<126, 121, 8, 0, 16, 0, 65, 84, 83, 70, 51, 50, 24, 33>>
CRLF == <<13, 10>>

\* chip and memory type to the file name of the stub
CHIP_FILE_NAME ==
    [ k \in {"sf32lb52_nor", "sf32lb52_nand", "sf32lb52_sd"} |->
        CASE k = "sf32lb52_nor" -> "ram_patch_52X.bin"
          [] k = "sf32lb52_nand" -> "ram_patch_52X_NAND.bin"
          [] k = "sf32lb52_sd" -> "ram_patch_52X_SD.bin" ]

\* the keys new() is called with: the three of the table and one it lacks
ChipKeys == DOMAIN CHIP_FILE_NAME \cup {"sf32lb52_emmc"}

stub_packet_size(c) == IF c THEN STUB_COMPAT_PACKET ELSE STUB_PACKET

from_le_bytes_BigEndian(b) == b[4] + 256 * b[3] + 65536 * b[2] + 16777216 * b[1]
from_le_bytes(b) == b[1] + 256 * b[2] + 65536 * b[3] + 16777216 * b[4]

\* RamStubFile::get found no file
NoStub == [len |-> -1, head |-> <<>>]

\* the first bytes of the stub images: a stack top and a Thumb entry in RAM,
\* and bytes that are all different
StubHeads ==
    { <<0, 160, 6, 32, 1, 161, 5, 32>>,
      <<1, 2, 3, 4, 5, 6, 7, 8>> }

\* stub images by length and first eight bytes: shorter than the two words,
\* the two words only, whole packets, and packets with a rest
StubImages(c) ==
    { [len |-> 4, head |-> SubSeq(h, 1, 4)] : h \in StubHeads }
    \cup { [len |-> n, head |-> h] :
             n \in {8} \cup { k * stub_packet_size(c) : k \in 1..(MaxStubPackets - 1) }
                       \cup { (MaxStubPackets - 1) * stub_packet_size(c) + 44 },
             h \in StubHeads }

InitBoot ==
    /\ FlashIdle
    /\ CodecIdle
    /\ NormIdle
    /\ MainIdle
    /\ b_compat \in BOOLEAN
    /\ b_key \in ChipKeys
    /\ b_stub \in StubImages(b_compat) \cup {NoStub}
    /\ b_pc = "list"
    /\ b_addr = 0
    /\ b_data = 0
    /\ b_mem = <<>>
    /\ b_sp = -1
    /\ b_pcreg = -1
    /\ b_tx = <<>>
    /\ b_ops = <<>>
    /\ b_result = "none"

\* `?` on a probe call: on Ok the function goes on, on Err it returns the
\* error as an io::Error of kind Other
ProbeCall(at, op, next) ==
    /\ b_pc = at
    /\ \E ok \in BOOLEAN :
          IF ok
          THEN /\ b_ops' = Append(b_ops, op)
               /\ b_pc' = next
               /\ b_result' = b_result
          ELSE /\ b_ops' = b_ops
               /\ b_pc' = "returned"
               /\ b_result' = "Other"

\* lister.list_all() and the search for the probe of the port
ListProbes ==
    /\ b_pc = "list"
    /\ \E found \in BOOLEAN :
          IF found
          THEN b_pc' = "open" /\ b_result' = b_result
          ELSE b_pc' = "returned" /\ b_result' = "NotFound"
    /\ UNCHANGED <<b_compat, b_key, b_stub, b_addr, b_data, b_mem, b_sp, b_pcreg, b_tx, b_ops>>
    /\ UNCHANGED nonBootVars

ProbeOpen ==
    /\ ProbeCall("open", "open", "attach")
    /\ UNCHANGED <<b_compat, b_key, b_stub, b_addr, b_data, b_mem, b_sp, b_pcreg, b_tx>>
    /\ UNCHANGED nonBootVars

ProbeAttach ==
    /\ ProbeCall("attach", "attach", "core")
    /\ UNCHANGED <<b_compat, b_key, b_stub, b_addr, b_data, b_mem, b_sp, b_pcreg, b_tx>>
    /\ UNCHANGED nonBootVars

SessionCore ==
    /\ ProbeCall("core", "core", "halt")
    /\ UNCHANGED <<b_compat, b_key, b_stub, b_addr, b_data, b_mem, b_sp, b_pcreg, b_tx>>
    /\ UNCHANGED nonBootVars

ResetAndHalt ==
    /\ ProbeCall("halt", "reset_and_halt", "stub")
    /\ UNCHANGED <<b_compat, b_key, b_stub, b_addr, b_data, b_mem, b_sp, b_pcreg, b_tx>>
    /\ UNCHANGED nonBootVars

\* the stub of the chip and memory type: a key the table lacks panics in
\* expect(), a file that is not embedded is the NotFound error
GetStub ==
    /\ b_pc = "stub"
    /\ IF b_key \notin DOMAIN CHIP_FILE_NAME
       THEN b_pc' = "panic" /\ b_result' = b_result /\ UNCHANGED <<b_addr, b_data>>
       ELSE IF b_stub = NoStub
            THEN b_pc' = "returned" /\ b_result' = "NotFound" /\ UNCHANGED <<b_addr, b_data>>
            ELSE /\ b_pc' = "write"
                 /\ b_result' = b_result
                 /\ b_addr' = STUB_ADDR
                 /\ b_data' = 0
    /\ UNCHANGED <<b_compat, b_key, b_stub, b_mem, b_sp, b_pcreg, b_tx, b_ops>>
    /\ UNCHANGED nonBootVars

\* one round of `while !data.is_empty()`
Write8 ==
    /\ b_pc = "write"
    /\ b_data < b_stub.len
    /\ LET chunk == Min(b_stub.len - b_data, stub_packet_size(b_compat))
       IN \E ok \in BOOLEAN :
             IF ok
             THEN /\ b_mem' = Append(b_mem, [addr |-> b_addr, off |-> b_data, len |-> chunk])
                  /\ b_addr' = b_addr + chunk
                  /\ b_data' = b_data + chunk
                  /\ UNCHANGED <<b_pc, b_result>>
             ELSE /\ b_pc' = "returned"
                  /\ b_result' = "Other"
                  /\ UNCHANGED <<b_mem, b_addr, b_data>>
    /\ UNCHANGED <<b_compat, b_key, b_stub, b_sp, b_pcreg, b_tx, b_ops>>
    /\ UNCHANGED nonBootVars

\* the loop is left; stub.data[0..4] and stub.data[4..8] panic on an image
\* shorter than the two words
SpAndPc ==
    /\ b_pc = "write"
    /\ b_data >= b_stub.len
    /\ b_pc' = IF b_stub.len < 8 THEN "panic" ELSE "sp"
    /\ UNCHANGED <<b_compat, b_key, b_stub, b_addr, b_data, b_mem, b_sp, b_pcreg, b_tx,
                   b_ops, b_result>>
    /\ UNCHANGED nonBootVars

WriteSP ==
    /\ ProbeCall("sp", "write_sp", "pcreg")
    /\ b_sp' = IF b_pc' = "pcreg" THEN from_le_bytes(SubSeq(b_stub.head, 1, 4)) ELSE b_sp
    /\ UNCHANGED <<b_compat, b_key, b_stub, b_addr, b_data, b_mem, b_pcreg, b_tx>>
    /\ UNCHANGED nonBootVars

WritePC ==
    /\ ProbeCall("pcreg", "write_pc", "run")
    /\ b_pcreg' = IF b_pc' = "run" THEN from_le_bytes(SubSeq(b_stub.head, 5, 8)) ELSE b_pcreg
    /\ UNCHANGED <<b_compat, b_key, b_stub, b_addr, b_data, b_mem, b_sp, b_tx>>
    /\ UNCHANGED nonBootVars

\* core.run(), the sleep of 500 ms and Ok(())
Run ==
    /\ b_pc = "run"
    /\ \E ok \in BOOLEAN :
          IF ok
          THEN b_ops' = Append(b_ops, "run") /\ b_result' = "Ok"
          ELSE b_ops' = b_ops /\ b_result' = "Other"
    /\ b_pc' = "returned"
    /\ UNCHANGED <<b_compat, b_key, b_stub, b_addr, b_data, b_mem, b_sp, b_pcreg, b_tx>>
    /\ UNCHANGED nonBootVars

\* Self::download_stub(&base_param).unwrap()
Unwrap_Ignored(res) == "port_open"
Unwrap(res) == IF res = "Ok" THEN "port_open" ELSE "panic"

DownloadStubReturn ==
    /\ b_pc = "returned"
    /\ b_pc' = Unwrap(b_result)
    /\ UNCHANGED <<b_compat, b_key, b_stub, b_addr, b_data, b_mem, b_sp, b_pcreg, b_tx,
                   b_ops, b_result>>
    /\ UNCHANGED nonBootVars

\* a call on the serial port followed by unwrap()
PortCall(at, op, next) ==
    /\ b_pc = at
    /\ \E ok \in BOOLEAN :
          IF ok
          THEN b_ops' = Append(b_ops, op) /\ b_pc' = next
          ELSE b_ops' = b_ops /\ b_pc' = "panic"

PortOpen ==
    /\ PortCall("port_open", "port_open", "magic")
    /\ UNCHANGED <<b_compat, b_key, b_stub, b_addr, b_data, b_mem, b_sp, b_pcreg, b_tx, b_result>>
    /\ UNCHANGED nonBootVars

\* port.write_all(bytes): all of them, or an error after some of them
PortWrite(at, bytes, next) ==
    /\ b_pc = at
    /\ \E n \in 0..Len(bytes) :
          /\ b_tx' = b_tx \o SubSeq(bytes, 1, n)
          /\ b_pc' = IF n = Len(bytes) THEN next ELSE "panic"

WriteMagic ==
    /\ PortWrite("magic", MAGIC, "crlf")
    /\ UNCHANGED <<b_compat, b_key, b_stub, b_addr, b_data, b_mem, b_sp, b_pcreg, b_ops, b_result>>
    /\ UNCHANGED nonBootVars

WriteCrLf ==
    /\ PortWrite("crlf", CRLF, "flush")
    /\ UNCHANGED <<b_compat, b_key, b_stub, b_addr, b_data, b_mem, b_sp, b_pcreg, b_ops, b_result>>
    /\ UNCHANGED nonBootVars

PortFlush ==
    /\ PortCall("flush", "flush", "clear")
    /\ UNCHANGED <<b_compat, b_key, b_stub, b_addr, b_data, b_mem, b_sp, b_pcreg, b_tx, b_result>>
    /\ UNCHANGED nonBootVars

PortClear ==
    /\ PortCall("clear", "clear", "done")
    /\ UNCHANGED <<b_compat, b_key, b_stub, b_addr, b_data, b_mem, b_sp, b_pcreg, b_tx, b_result>>
    /\ UNCHANGED nonBootVars

NextBoot ==
    \/ ListProbes
    \/ ProbeOpen
    \/ ProbeAttach
    \/ SessionCore
    \/ ResetAndHalt
    \/ GetStub
    \/ Write8
    \/ SpAndPc
    \/ WriteSP
    \/ WritePC
    \/ Run
    \/ DownloadStubReturn
    \/ PortOpen
    \/ WriteMagic
    \/ WriteCrLf
    \/ PortFlush
    \/ PortClear

SpecBoot == InitBoot /\ [][NextBoot]_vars

----------------------------------------------------------------------------
\* Properties of command() / send_data() (specification SpecCodec)

\* the literal token of a Response, and substring containment as such
TokenOf(r) ==
    IF r = "Ok" THEN <<"O", "K">>
    ELSE IF r = "Fail" THEN <<"F", "a", "i", "l">>
    ELSE <<"R", "X", "_", "W", "A", "I", "T">>

HasToken(bytes, r) ==
    \E i \in 0..Len(bytes) : \E j \in i..Len(bytes) : SubSeq(bytes, i + 1, j) = TokenOf(r)

AnyToken(bytes) == \E r \in Responses : HasToken(bytes, r)

\* C5: as soon as the bytes read so far contain one of the tokens OK, Fail,
\* RX_WAIT anywhere among other bytes, the call has returned, and it returned
\* the Response of a token that the accumulated bytes contain -- never a
\* timeout.
C5_TokenScan ==
    /\ c_pc = "read" => ~ AnyToken(c_buffer)
    /\ (c_pc = "done" /\ AnyToken(c_buffer)) =>
          /\ c_result \in Responses
          /\ HasToken(c_buffer, c_result)

\* "g" "RX_WAIT" "g": garbage before and after the token
C5_Witness ==
    /\ c_cmd = "Data"
    /\ c_pc = "done"
    /\ c_buffer = <<"g", "R", "X", "_", "W", "A", "I", "T">>
    /\ c_rx \o c_stream = <<"g">>
    /\ c_result = "RxWait"

\* C6: a call that returns without a token among the bytes it read returns a
\* timeout error, and only after the deadline has passed; Fail is returned
\* only when the bytes "Fail" were read.
C6_TimeoutIsNotFail ==
    /\ c_result = "Fail" => HasToken(c_buffer, "Fail")
    /\ (c_pc = "done" /\ c_cmd # "SetBaud" /\ ~ AnyToken(c_buffer)) =>
          /\ c_result = "Timeout"
          /\ c_elapsed > Deadline(c_cmd)
    /\ (c_pc = "read" /\ c_elapsed > Deadline(c_cmd)) => c_result = "none"

C6_Witness ==
    /\ c_pc = "done"
    /\ c_result = "Timeout"
    /\ c_buffer = <<"g", "R", "X", "_">>
    /\ c_elapsed > Deadline(c_cmd)

\* C19: command() clears the input buffer before it writes the command line,
\* so no byte the device sends after the command was written is discarded
\* by that clear.
C19_ClearBeforeWrite ==
    c_cmd # "Data" => c_lost = <<>>

\* the deadlines as the specification states them
StatedDeadline == IF c_cmd = "EraseAll" THEN 30000 ELSE 4000

\* C21: every call of command() and send_data() returns: with the decoded
\* Response as soon as a token is among the accumulated bytes, else with the
\* timeout error once more than the deadline has elapsed (30000 ms for
\* EraseAll, 4000 ms for every other command and for payload); failed reads
\* alone never end a call before its deadline.
C21_CallTerminates ==
    /\ <>(c_pc = "done")
    /\ [](c_pc = "done" => c_result \in Responses \cup {"Timeout"})
    /\ [](c_result = "Timeout" => (c_elapsed > StatedDeadline /\ ~ AnyToken(c_buffer)))
    /\ []((c_pc = "read" /\ c_elapsed > StatedDeadline) => ENABLED LoopTimeout)
    /\ []((c_pc = "done" /\ c_buffer = <<>> /\ c_cmd # "SetBaud") =>
              (c_result = "Timeout" /\ c_elapsed > StatedDeadline))
    /\ [](c_pc = "read" => ~ AnyToken(c_buffer))

\* EraseAll with a silent device: only failed reads, the call returned the
\* timeout after more than 30000 ms
C21_Witness ==
    /\ c_cmd = "EraseAll"
    /\ c_pc = "done"
    /\ c_buffer = <<>>
    /\ c_stream = <<>>
    /\ c_result = "Timeout"
    /\ c_elapsed > 30000

\* the positions in bytes at which an occurrence of r's token ends
Ends(bytes, r) ==
    { j \in 1..Len(bytes) :
        /\ j >= Len(TokenOf(r))
        /\ SubSeq(bytes, j - Len(TokenOf(r)) + 1, j) = TokenOf(r) }

\* C26: the Response a call returns is that of the token whose first
\* occurrence ends earliest among the bytes the call reads and those that
\* follow them, wherever the token stands in the table; the call returns
\* with that token's last byte, so the bytes read determine the Response.
C26_EarliestToken ==
    (c_result \in Responses /\ c_cmd # "SetBaud") =>
        LET stream == c_buffer \o c_rx \o c_stream
        IN /\ Len(c_buffer) \in Ends(stream, c_result)
           /\ \A q \in Responses : \A k \in Ends(stream, q) :
                 (q = c_result /\ k = Len(c_buffer)) \/ k > Len(c_buffer)
           /\ \A q \in Responses \ {c_result} : ~ HasToken(c_buffer, q)

\* "Fail" came before "OK", which stands first in the table
C26_Witness ==
    /\ c_cmd = "Verify"
    /\ c_pc = "done"
    /\ c_result = "Fail"
    /\ c_buffer = <<"g", "F", "a", "i", "l">>
    /\ c_rx \o c_stream = <<"O", "K">>

----------------------------------------------------------------------------
\* Properties of the orchestrator (specification Spec)

\* the bank of an address as the specification words it: the address with
\* everything below its top byte cleared
TopByteBank(a) == a - (a % 16777216)

EraseAllEntries == SelectSeq(log, LAMBDA e : e.op = "EraseAll")
ChunkEntries(k) == SelectSeq(log, LAMBDA e : e.file = k /\ e.op # "EraseAll")
DataEntries(k) == SelectSeq(log, LAMBDA e : e.file = k /\ e.op = "Data")

\* log[i] is the Verify issued after the chunk was written (not the skip check)
IsPostVerify(i) ==
    /\ log[i].op = "Verify"
    /\ \/ erase_all
       \/ \E j \in 1..(i - 1) : log[j].file = log[i].file /\ log[j].op = "WriteAndErase"

\* C1: without erase_all the first thing sent for a chunk is Verify(address,
\* len, crc) of that chunk, and when the device answers Ok nothing else is
\* sent for the chunk (no WriteAndErase, no Write, no payload) and the loop
\* has moved on to the next chunk.
C1_SkipWhenVerifyOk ==
    ~ erase_all =>
        \A k \in 1..Len(files) :
            LET es == ChunkEntries(k)
            IN  es # <<>> =>
                  /\ es[1].op = "Verify"
                  /\ es[1].address = files[k].address
                  /\ es[1].len = files[k].len
                  /\ es[1].crc = files[k].crc32
                  /\ es[1].resp = "Ok" => (Len(es) = 1 /\ idx > k)

C1_Witness ==
    /\ ~ erase_all
    /\ \E k \in 1..(Len(files) - 1) :
          /\ ChunkEntries(k) # <<>>
          /\ ChunkEntries(k)[1].resp = "Ok"
          /\ ChunkEntries(k + 1) # <<>>

\* C2: with erase_all no two EraseAll commands go to the same bank, and once
\* erase_all() has gone through the whole chunk list the number of EraseAll
\* commands is the number of distinct banks among the chunk addresses.
C2_OneEraseAllPerBank ==
    LET ea == EraseAllEntries
    IN  /\ ~ erase_all => ea = <<>>
        /\ \A i, j \in 1..Len(ea) :
              i # j => TopByteBank(ea[i].address) # TopByteBank(ea[j].address)
        /\ (erase_all /\ eidx > Len(files)) =>
              Len(ea) = Cardinality({ TopByteBank(files[k].address) : k \in 1..Len(files) })

C2_Witness ==
    /\ erase_all
    /\ Len(files) = 3
    /\ files[1].address = 301989888
    /\ files[2].address = 302055424
    /\ files[3].address = 268435456
    /\ eidx > Len(files)
    /\ Len(EraseAllEntries) = 2

\* C3: when the post-write Verify of a chunk is answered with anything but Ok,
\* write_flash has returned "Verify failed" (not the "Write flash failed" of a
\* write error) and that Verify is the last thing it sent; and "Verify failed"
\* is returned for nothing else.
C3_VerifyFailureStops ==
    /\ \A i \in 1..Len(log) :
          (IsPostVerify(i) /\ log[i].resp \in {"Fail", "RxWait"}) =>
              /\ verify
              /\ pc = "done"
              /\ result = "Verify failed"
              /\ i = Len(log)
    /\ result = "Verify failed" =>
          /\ log # <<>>
          /\ IsPostVerify(Len(log))
          /\ log[Len(log)].resp \in {"Fail", "RxWait"}

C3_Witness ==
    /\ log # <<>>
    /\ IsPostVerify(Len(log))
    /\ log[Len(log)].resp = "Fail"
    /\ log[Len(log)].file < Len(files)
    /\ result = "Verify failed"

\* number of read buffers a chunk of length l takes
NumBuffers(l) == (l + STREAM_BUFFER - 1) \div STREAM_BUFFER

\* the payload answers of chunk k so far are RxWait for every buffer but the
\* last and Ok for the last
Backpressure(k) ==
    LET d == DataEntries(k)
        n == NumBuffers(files[k].len)
    IN  \A i \in 1..Len(d) :
            d[i].resp \in {"none", IF i < n THEN "RxWait" ELSE "Ok"}

\* C4: a chunk streamed after WriteAndErase whose buffers are answered RxWait
\* except the last, answered Ok: every buffer is sent once and in order, no
\* write error ends the streaming, and the chunk is completed exactly once.
C4_BackpressureCompletes ==
    ~ erase_all =>
        \A k \in 1..Len(files) :
            LET d == DataEntries(k)
                n == NumBuffers(files[k].len)
            IN  Backpressure(k) =>
                  /\ Len(d) <= n
                  /\ \A i \in 1..Len(d) :
                        /\ d[i].address = (i - 1) * STREAM_BUFFER
                        /\ d[i].len = Min(STREAM_BUFFER, files[k].len - d[i].address)
                  /\ ~ ( /\ result \in {"Write flash failed", "Timeout"}
                         /\ log # <<>>
                         /\ log[Len(log)].op = "Data"
                         /\ log[Len(log)].file = k )
                  /\ completed[k] <= 1
                  /\ (Len(d) = n /\ n >= 1 /\ d[n].resp = "Ok" /\ idx = k /\ pc = "stream")
                        => pos = files[k].len
                  /\ (d # <<>> /\ (idx > k \/ pc \in {"post", "pv_wait"}))
                        => (completed[k] = 1 /\ Len(d) = n)
                  /\ (Len(d) = n /\ n >= 1 /\ d[n].resp = "Ok" /\ idx = k /\ pc = "done")
                        => completed[k] = 1

C4_Witness ==
    /\ ~ erase_all
    /\ \E k \in 1..Len(files) :
          /\ NumBuffers(files[k].len) = 2
          /\ Len(DataEntries(k)) = 2
          /\ DataEntries(k)[1].resp = "RxWait"
          /\ DataEntries(k)[2].resp = "Ok"
          /\ completed[k] = 1
          /\ idx > k

\* C7: the protocol is half-duplex: whenever something is written to the
\* transport, the response to everything written before it has been read and
\* classified.
C7_HalfDuplex ==
    \A i \in 1..(Len(log) - 1) : log[i].resp # "none"

\* the same, for the path without erase_all only
C7_HalfDuplexWithoutEraseAll ==
    ~ erase_all => \A i \in 1..(Len(log) - 1) : log[i].resp # "none"


\* C13: while a chunk is streamed after WriteAndErase, an Ok answer to a
\* payload buffer ends the streaming of the chunk: no payload buffer of the
\* chunk is written after one that was answered Ok.
C13_OkEndsStreaming ==
    ~ erase_all =>
        \A k \in 1..Len(files) :
            \A i \in 1..(Len(DataEntries(k)) - 1) : DataEntries(k)[i].resp # "Ok"

C15_WriteAndEraseGate ==
    ~ erase_all =>
        \A k \in 1..Len(files) :
            LET es == ChunkEntries(k)
            IN  /\ (es # <<>> /\ es[1].resp \in {"Fail", "RxWait"}) =>
                      \/ Len(es) = 1 /\ idx = k /\ pc = "we_send"
                      \/ Len(es) = 1 /\ idx = k /\ pc = "done" /\ result = "IoError"
                      \/ Len(es) >= 2
                /\ Len(es) >= 2 =>
                      /\ es[1].resp \in {"Fail", "RxWait"}
                      /\ es[2].op = "WriteAndErase"
                      /\ es[2].address = files[k].address
                      /\ es[2].len = files[k].len
                /\ \A j \in 1..Len(es) :
                      es[j].op = "Data" => (j >= 3 /\ es[2].resp = "RxWait")
                /\ (Len(es) >= 2 /\ es[2].resp \in {"Ok", "Fail"}) =>
                      /\ Len(es) = 2
                      /\ idx = k
                      /\ pc = "done"
                      /\ result = "Write flash failed"

\* the second chunk's WriteAndErase is answered Ok after the first chunk was
\* streamed
C15_Witness ==
    /\ ~ erase_all
    /\ Len(files) >= 2
    /\ Len(DataEntries(1)) >= 1
    /\ Len(ChunkEntries(2)) = 2
    /\ ChunkEntries(2)[1].resp = "RxWait"
    /\ ChunkEntries(2)[2].resp = "Ok"
    /\ result = "Write flash failed"

\* the chunk was not skipped by the skip check
NotSkipped(k) == erase_all \/ (ChunkEntries(k) # <<>> /\ ChunkEntries(k)[1].resp \notin {"none", "Ok"})

PostVerifies(k) == { i \in 1..Len(log) : log[i].file = k /\ IsPostVerify(i) }

RECURSIVE SumLen(_)
SumLen(es) == IF es = <<>> THEN 0 ELSE Head(es).len + SumLen(Tail(es))

\* C16: a Verify after the write is issued for a chunk exactly when verify is
\* requested and the chunk was written in this pass (not skipped by the skip
\* check); it comes after the last payload buffer of the chunk and carries
\* the chunk's address, its length and the crc32 of normalization, as the
\* skip check does.
C16_PostVerify ==
    \A k \in 1..Len(files) :
        /\ \A i \in PostVerifies(k) :
              /\ verify
              /\ NotSkipped(k)
              /\ completed[k] = 1
              /\ SumLen(DataEntries(k)) = files[k].len
              /\ \A j \in 1..Len(log) : (log[j].file = k /\ j > i) => FALSE
              /\ log[i].address = files[k].address
              /\ log[i].len = files[k].len
              /\ log[i].crc = files[k].crc32
              /\ ~ erase_all =>
                    /\ log[i].address = ChunkEntries(k)[1].address
                    /\ log[i].len = ChunkEntries(k)[1].len
                    /\ log[i].crc = ChunkEntries(k)[1].crc
        /\ Cardinality(PostVerifies(k)) <= 1
        /\ (idx > k /\ verify /\ NotSkipped(k)) => PostVerifies(k) # {}
        /\ (idx > k /\ ~ NotSkipped(k)) => Len(ChunkEntries(k)) = 1

\* a two-buffer chunk written and verified, after a chunk that was skipped
C16_Witness ==
    /\ ~ erase_all
    /\ verify
    /\ Len(files) >= 2
    /\ idx > 2
    /\ ~ NotSkipped(1)
    /\ PostVerifies(1) = {}
    /\ Len(DataEntries(2)) = 2
    /\ PostVerifies(2) # {}

\* the answer to log[i] is one write_flash returns an error on
Fatal(i) ==
    \/ log[i].resp = "Timeout"
    \/ log[i].op = "WriteAndErase" /\ log[i].resp \in {"Ok", "Fail"}
    \/ log[i].op = "Data" /\ log[i].resp = "Fail"
    \/ log[i].op = "Data" /\ erase_all /\ log[i].resp = "RxWait"
    \/ IsPostVerify(i) /\ log[i].resp \in {"Fail", "RxWait"}

C25_PayloadBound ==
    \A i \in DOMAIN log :
        log[i].op = "Data" => log[i].len <= (IF compat THEN 256 ELSE 131072)

\* C27: a chunk whose write loop was left (so that its Verify, the next chunk
\* or the successful return follows) had a payload buffer answered Ok, and
\* its last payload buffer was not answered RxWait.
C27_WrittenOnlyAfterOk ==
    \A k \in 1..Len(files) :
        completed[k] >= 1 =>
            /\ \E i \in DOMAIN DataEntries(k) : DataEntries(k)[i].resp = "Ok"
            /\ DataEntries(k)[Len(DataEntries(k))].resp # "RxWait"

WriteIndexes(k) == { i \in DOMAIN log : log[i].file = k /\ log[i].op = "Write" }
WriteEntries(k) == SelectSeq(log, LAMBDA e : e.file = k /\ e.op = "Write")

\* C28: with erase_all the Write lines of a chunk tile its address range: the
\* first is at the chunk's address, each next one at the address plus len of
\* the one before, no len above 256 (compat) or 128 KiB, and the lens add up
\* to the chunk's length once its loop is left; right behind each Write line
\* go exactly len bytes of the chunk, from the offset the line's address has
\* in the chunk.
C28_WritePartition ==
    \A k \in 1..Len(files) :
        /\ WriteIndexes(k) # {} => erase_all
        /\ \A j \in DOMAIN WriteEntries(k) :
              /\ WriteEntries(k)[j].address =
                    files[k].address + SumLen(SubSeq(WriteEntries(k), 1, j - 1))
              /\ WriteEntries(k)[j].len >= 1
              /\ WriteEntries(k)[j].len <= (IF compat THEN 256 ELSE 131072)
        /\ SumLen(WriteEntries(k)) <= files[k].len
        /\ (erase_all /\ completed[k] >= 1) => SumLen(WriteEntries(k)) = files[k].len
        /\ \A i \in WriteIndexes(k) :
              IF i < Len(log)
              THEN /\ log[i + 1].op = "Data"
                   /\ log[i + 1].file = k
                   /\ log[i + 1].len = log[i].len
                   /\ log[i + 1].address = log[i].address - files[k].address
                   /\ (i + 1 < Len(log) => log[i + 1].resp = "Ok")
              ELSE pc = "ea_data" \/ result \notin {"running", "Ok"}
        /\ erase_all =>
              \A i \in DOMAIN log :
                  (log[i].file = k /\ log[i].op = "Data") =>
                      (i > 1 /\ log[i - 1].op = "Write" /\ log[i - 1].file = k)

\* a chunk of one packet and a rest of 44 bytes was written in compat mode
C28_Witness ==
    /\ erase_all
    /\ compat
    /\ Len(files) >= 1
    /\ completed[1] = 1
    /\ Len(WriteEntries(1)) = 2
    /\ WriteEntries(1)[2].address = files[1].address + 256
    /\ WriteEntries(1)[2].len = 44

----------------------------------------------------------------------------
\* Properties of SifliTool::new and download_stub (specification SpecBoot)

Did(op) == \E i \in DOMAIN b_ops : b_ops[i] = op

RECURSIVE SumPackets(_, _)
SumPackets(m, n) == IF n = 0 THEN 0 ELSE SumPackets(m, n - 1) + m[n].len

\* the little-endian word at bytes at+1 .. at+4 of the image
WordAt(at) ==
    b_stub.head[at + 1] + 256 * b_stub.head[at + 2]
        + 65536 * b_stub.head[at + 3] + 16777216 * b_stub.head[at + 4]

\* C22: the core is halted before any stub byte is written; the packets run
\* from 0x2005A000 on, each at most 256 bytes (compat) or 64 KiB long and
\* each beginning where the one before ended, in the image as in RAM; SP and
\* PC are the little-endian words at bytes 0-3 and 4-7; the core is resumed
\* only after the whole image and both registers were written, and a call
\* that returned an error did not resume it.
C22_BootstrapOrder ==
    /\ b_mem # <<>> => Did("reset_and_halt")
    /\ \A i \in DOMAIN b_mem :
          /\ b_mem[i].addr = 537239552 + SumPackets(b_mem, i - 1)
          /\ b_mem[i].off = SumPackets(b_mem, i - 1)
          /\ b_mem[i].len >= 1
          /\ b_mem[i].len <= (IF b_compat THEN 256 ELSE 65536)
          /\ b_mem[i].off + b_mem[i].len <= b_stub.len
    /\ b_sp # -1 => (b_sp = WordAt(0) /\ SumPackets(b_mem, Len(b_mem)) = b_stub.len)
    /\ b_pcreg # -1 => (b_pcreg = WordAt(4) /\ b_sp # -1)
    /\ Did("run") =>
          /\ Did("reset_and_halt")
          /\ SumPackets(b_mem, Len(b_mem)) = b_stub.len
          /\ b_sp = WordAt(0)
          /\ b_pcreg = WordAt(4)
          /\ b_result = "Ok"
    /\ b_result \in {"Other", "NotFound"} => ~ Did("run")
    /\ b_result = "Ok" => Did("run")

\* a stub of three packets in compat mode was loaded and started
C22_Witness ==
    /\ b_compat
    /\ Len(b_mem) = 3
    /\ b_mem[2].addr = 537239552 + 256
    /\ b_sp # b_pcreg
    /\ Did("run")

\* C23 as stated: whenever the probe has halted the core or written a byte
\* of the stub, the magic sequence and CR LF were written to the serial port
\* and its buffers cleared before.
C23_HandshakeBeforeBootstrap ==
    (Did("reset_and_halt") \/ b_mem # <<>>) =>
        (b_tx = <<126, 121, 8, 0, 16, 0, 65, 84, 83, 70, 51, 50, 24, 33, 13, 10>>
            /\ Did("clear"))

\* C23, amended: the serial port is opened and written to only after
\* download_stub returned Ok, the core running the stub; the 14 magic bytes
\* and CR LF are all that is written, then the port is flushed and cleared.
C23_HandshakeAfterBootstrap ==
    /\ (Did("port_open") \/ b_tx # <<>>) => (b_result = "Ok" /\ Did("run"))
    /\ \A i \in DOMAIN b_tx :
          b_tx[i] = <<126, 121, 8, 0, 16, 0, 65, 84, 83, 70, 51, 50, 24, 33, 13, 10>>[i]
    /\ Len(b_tx) <= 16
    /\ Did("flush") => Len(b_tx) = 16
    /\ Did("clear") => Did("flush")
    /\ b_pc = "done" => (Did("clear") /\ b_ops[Len(b_ops)] = "clear")

C23_Witness ==
    /\ b_pc = "done"
    /\ Len(b_tx) = 16
    /\ Len(b_mem) >= 1
    /\ Did("run")

----------------------------------------------------------------------------
\* Properties of the loop over file_path, hex_to_bin and elf_to_bin
\* (specification SpecNorm)

\* the input a chunk of write_flash_files came from, and its kind
InputOf(k) == n_inputs[n_files[k].src]
FromElf(k) == InputOf(k).at = "none" /\ detect_file_type(InputOf(k)) = "Elf"
FromHex(k) == InputOf(k).at = "none" /\ detect_file_type(InputOf(k)) = "Hex"

\* [address, address + len) of two chunks have no address in common
Disjoint(c, d) ==
    \/ c.address + Len(c.data) <= d.address
    \/ d.address + Len(d.data) <= c.address
    \/ Len(c.data) = 0
    \/ Len(d.data) = 0

ImageOf(rec) == WriteAt(<<>>, rec.offset, rec.value)

\* a HEX file of two Data records, the second behind an
\* ExtendedLinearAddress record that changes the upper 16 bits (they start
\* as 0), and the EndOfFile record
LinearAddressSwitch(records) ==
    /\ Len(records) = 4
    /\ records[1].type = "Data" /\ records[1].value # <<>>
    /\ records[2].type = "ExtendedLinearAddress" /\ records[2].addr # 0
    /\ records[3].type = "Data" /\ records[3].value # <<>>
    /\ records[4].type = "EndOfFile"

\* C9: a HEX file with two Data records, the second preceded by an
\* ExtendedLinearAddress record that changes the upper 16 bits, yields two
\* distinct chunks at two different base addresses, each holding only the
\* data recorded under its own extended linear address.
C9_LinearAddressSwitch ==
    (/\ n_pc = "done"
     /\ n_result = "Ok"
     /\ Len(n_inputs) = 1
     /\ n_inputs[1].at = "none"
     /\ detect_file_type(n_inputs[1]) = "Hex"
     /\ LinearAddressSwitch(n_inputs[1].body.records))
    => /\ Len(n_files) = 2
       /\ n_files[1].address # n_files[2].address
       /\ n_files[1].address = 0
       /\ n_files[1].data = ImageOf(n_inputs[1].body.records[1])
       /\ n_files[2].address = n_inputs[1].body.records[2].addr * 65536
       /\ n_files[2].data = ImageOf(n_inputs[1].body.records[3])

\* byte position p (from 0) of a chunk of a HEX file lies in a Data record
HexCovered(records, p) ==
    \E r \in 1..Len(records) :
        /\ records[r].type = "Data"
        /\ records[r].offset <= p
        /\ p < records[r].offset + Len(records[r].value)

\* address a lies in a selected PT_LOAD segment of an ELF file
ElfCovered(phs, a) ==
    \E r \in 1..Len(phs) :
        /\ Selected(phs[r])
        /\ phs[r].p_paddr <= a
        /\ a < phs[r].p_paddr + phs[r].p_filesz

\* every byte of chunk k that no Data record covers is 0xFF
GapFilledHex(k) ==
    \A p \in 1..Len(n_files[k].data) :
        HexCovered(InputOf(k).body.records, p - 1) \/ n_files[k].data[p] = FILL_BYTE

\* every byte of chunk k that no selected segment covers is 0xFF
GapFilledElf(k) ==
    \A p \in 1..Len(n_files[k].data) :
        ElfCovered(InputOf(k).body.phs, n_files[k].address + p - 1)
            \/ n_files[k].data[p] = FILL_BYTE

\* C10: in every chunk produced from a HEX or ELF file, every byte position
\* that is not covered by a Data record or a selected PT_LOAD segment equals
\* 0xFF, for any order and spacing of records or segments.
C10_GapFill ==
    \A k \in 1..Len(n_files) :
        /\ FromHex(k) => GapFilledHex(k)
        /\ FromElf(k) => GapFilledElf(k)

\* the part of C10 that the code keeps: the chunks of HEX files
C10_GapFillHex ==
    \A k \in 1..Len(n_files) : FromHex(k) => GapFilledHex(k)

\* two selected segments of an ELF file share an address
Overlapping(phs) ==
    \E r, q \in 1..Len(phs) :
        /\ r # q
        /\ Selected(phs[r]) /\ Selected(phs[q])
        /\ phs[r].p_filesz > 0 /\ phs[q].p_filesz > 0
        /\ phs[r].p_paddr < phs[q].p_paddr + phs[q].p_filesz
        /\ phs[q].p_paddr < phs[r].p_paddr + phs[r].p_filesz

\* the part of C10 that the code keeps for ELF files: those whose selected
\* segments do not overlap
C10_GapFillElfWithoutOverlap ==
    \A k \in 1..Len(n_files) :
        (FromElf(k) /\ ~Overlapping(InputOf(k).body.phs)) => GapFilledElf(k)

\* the number the text behind the '@' of an input denotes, -1 when none
Means(input) ==
    IF \E e \in AddressTable : e.text = input.value
    THEN (CHOOSE e \in AddressTable : e.text = input.value).means
    ELSE -1

\* CRC-32 of CheckText as the Algorithm states it: check: 0x2DFD2D88
CheckCrc == <<136, 45, 253, 45>>

ChunksOf(s) == SelectSeq(n_files, LAMBDA c : c.src = s)

\* C11: an input path@address with the address as a 0x, 0b, 0o or decimal
\* literal yields exactly one chunk: at the number the literal denotes, of the
\* length and content of the file, with the CRC-32 of the content; an address
\* that is no such literal yields an error and no chunk.
C11_RawBinary ==
    \A s \in 1..Len(n_inputs) :
        (n_inputs[s].at = "at" /\ n_inputs[s].body.t = "raw"
           /\ (n_i > s \/ (n_pc = "done" /\ n_i = s))) =>
            IF Means(n_inputs[s]) >= 0
            THEN /\ n_i > s
                 /\ Len(ChunksOf(s)) = 1
                 /\ ChunksOf(s)[1].address = Means(n_inputs[s])
                 /\ Len(ChunksOf(s)[1].data) = Len(n_inputs[s].body.bytes)
                 /\ ChunksOf(s)[1].data = n_inputs[s].body.bytes
                 /\ ChunksOf(s)[1].crc32 = get_file_crc32(n_inputs[s].body.bytes)
                 /\ n_inputs[s].body.bytes = CheckText => ChunksOf(s)[1].crc32 = CheckCrc
            ELSE /\ n_i = s
                 /\ n_pc = "done"
                 /\ n_result = "ParseIntError"
                 /\ ChunksOf(s) = <<>>

\* "0o17" and the check text: one chunk at 15 with the check value as CRC
C11_Witness ==
    /\ n_pc = "done"
    /\ n_result = "Ok"
    /\ Len(n_inputs) = 1
    /\ n_inputs[1].at = "at"
    /\ n_inputs[1].value = <<"0", "o", "1", "7">>
    /\ n_inputs[1].body.bytes = CheckText
    /\ Len(n_files) = 1
    /\ n_files[1].address = 15
    /\ n_files[1].crc32 = CheckCrc

\* C24: every chunk the normalizer has put on the list, whatever input it
\* came from, is at least one byte long.
C24_NoEmptyChunk ==
    \A k \in DOMAIN n_files : Len(n_files[k].data) >= 1

----------------------------------------------------------------------------
\* Properties of the session (specification SpecMain)

\* the image error an input of a session is expected to produce, "none" for
\* a good input
ExpectedError(input) ==
    IF input.at = "at" /\ Means(input) < 0 THEN "ParseIntError"
    ELSE IF input.body.t = "missing" THEN "NotFound"
    ELSE IF input.at = "at" THEN "none"
    ELSE IF input.ext = "bin" THEN "For binary files, please use the <file@address> format"
    ELSE IF input.ext = "txt" THEN "Unrecognized file type"
    ELSE IF \E r \in 1..Len(input.body.records) : input.body.records[r].type = "Malformed"
    THEN "InvalidHex"
    ELSE "none"

BadInputs == { s \in 1..Len(n_inputs) : ExpectedError(n_inputs[s]) # "none" }

FirstBad == CHOOSE s \in BadInputs : \A t \in BadInputs : s <= t

FlashOps == {"EraseAll", "Verify", "WriteAndErase", "Write", "Data"}

\* C12: when an input of the file list produces an image error (unparsable
\* address, unreadable file, .bin without @address, unrecognized type,
\* malformed HEX record), wherever it stands in the list, nothing of
\* write_flash is ever written to the device (no EraseAll, Verify,
\* WriteAndErase, Write, payload) and write_flash returns that error.
C12_NoPartialFlashing ==
    BadInputs # {} =>
        /\ \A i \in 1..Len(log) : log[i].op \notin FlashOps
        /\ pc \in {"idle", "done"}
        /\ pc = "done" => result = ExpectedError(n_inputs[FirstBad])

\* a good input followed by a bad one: write_flash has returned the error
\* and main has gone through to its end
C12_Witness ==
    /\ Len(n_inputs) = 2
    /\ BadInputs = {2}
    /\ n_files # <<>>
    /\ pc = "done"
    /\ result = "InvalidHex"
    /\ m_pc = "exit"

\* C18: once write_flash has returned an error, no further protocol command
\* is sent to the device, the trailing SoftReset included.
C18_ErrorAbortsSession ==
    (pc = "done" /\ result # "Ok") =>
        \A i \in 1..Len(log) : log[i].op # "SoftReset"

\* C20: SetBaud is written and command() returns without reading a response
\* to it; the baud rate of the local port changes only once the SetBaud line
\* has been written, to the rate that line names, and is what it was when
\* the write failed; after set_speed the port runs at the rate asked for.
C20_SetBaudFireAndForget ==
    /\ \A i \in 1..Len(log) :
          log[i].op = "SetBaud" =>
              /\ i = 1
              /\ log[i].address = m_baud
              /\ log[i].resp = "none"
    /\ port_baud # DEFAULT_BAUD =>
          /\ log # <<>>
          /\ log[1].op = "SetBaud"
          /\ port_baud = log[1].address
    /\ (log = <<>> \/ log[1].op # "SetBaud") => port_baud = DEFAULT_BAUD
    /\ (m_baud # DEFAULT_BAUD /\ m_pc \notin {"start", "set_speed_wait", "panic"}) =>
          port_baud = m_baud

\* a session at 115200 baud that went on to send further commands
C20_Witness ==
    /\ m_baud = 115200
    /\ port_baud = 115200
    /\ Len(log) >= 2
    /\ log[1].op = "SetBaud"
    /\ log[1].resp = "none"
    /\ log[2].op = "Verify"
    /\ log[2].resp = "Ok"

====
